---- MODULE Spec2Model ----
(***************************************************************************)
(* A model of spdz-client-lib: the finite field type Gfp, the binary       *)
(* decoding of shares (binaryToArray, binaryToShare), the aggregation of   *)
(* per proxy events (flattenResponseMessage) and the web socket client     *)
(* (connectSetup, connectToSPDZProxy and the promise wrappers).            *)
(*                                                                         *)
(* TLC computes with 32 bit integers, so the 128 bit prime field of the    *)
(* library is scaled down: a byte takes BYTE_RANGE values instead of 256,  *)
(* an integer is INTEGER_LENGTH_BYTES = 2 bytes long instead of 16 and the *)
(* prime is 13 instead of 172035116406933162231178957667602464769.  As in  *)
(* the library R = BYTE_RANGE ^ INTEGER_LENGTH_BYTES, R/2 < GFP_PRIME < R, *)
(* and every operation is computed the way the library computes it.  The   *)
(* exact integers of JavaScript end at MAX_SAFE_INTEGER = 3 instead of     *)
(* 2^53 - 1: as in the library they end below GFP_PRIME / 2.               *)
(***************************************************************************)
EXTENDS Integers, Sequences, FiniteSets, TLC

\* ------------------------------------------------------------------ bounds

\* messages of any type a proxy sends on 'spdz_message'
MaxSpdzMsgs == 3

\* calls of connectToSPDZProxy in one process
MaxProxyCalls == 2

\* commands a caller asks for once connectToSPDZProxy may have been called again
MaxBusRequests == 3

\* most elements of a list handed to listComparison and convertUserInput
MaxListLen == 3

\* requests a caller makes of SpdzApiAggregate.js, one after the other
MaxRestCalls == 4

\* number of values a byte takes in the scaled model (256 in the library)
BYTE_RANGE == 4
\* number of SPDZ proxies passed to connectToSPDZProxy
NumParties == 2
\* most triples in one share buffer
MaxTriples == 2
\* most send requests made
MaxSends == 2
\* most share messages of one proxy
MaxShareMsgs == 2

Parties == 1..NumParties

\* ------------------------------------------------------- math/Gfp.js

INTEGER_LENGTH_BYTES == 2
GFP_PRIME == 13
GFP_NEGATIVE_BOUNDARY == GFP_PRIME \div 2
MIN_NEGATIVE == GFP_NEGATIVE_BOUNDARY - GFP_PRIME
\* Number.MAX_SAFE_INTEGER, and Number.MIN_SAFE_INTEGER is its negative
MAX_SAFE_INTEGER == 3

RECURSIVE Pow(_, _)
Pow(b, e) == IF e = 0 THEN 1 ELSE b * Pow(b, e - 1)

R == Pow(BYTE_RANGE, INTEGER_LENGTH_BYTES)
R_INVERSE == CHOOSE x \in 1..(GFP_PRIME - 1) : (x * R) % GFP_PRIME = 1

\* the result of a call that may throw: a value, or the message of the error
Ok(v) == [ok |-> TRUE, val |-> v, err |-> ""]
Err(m) == [ok |-> FALSE, val |-> <<>>, err |-> m]

\* a faulty conversion that leaves the value as it is
toMontgomeryPlain(value) == value % GFP_PRIME
toMontgomery(value) == (value * R) % GFP_PRIME
fromMontgomery(value) == (value * R_INVERSE) % GFP_PRIME
\* a faulty mapping that leaves the upper half of the field positive
fromGfpMappingUnsigned(bigIntGfp) == bigIntGfp

fromGfpMapping(bigIntGfp) ==
  IF bigIntGfp >= GFP_NEGATIVE_BOUNDARY THEN bigIntGfp - GFP_PRIME ELSE bigIntGfp

\* new Gfp(value, isMapped): the stored val, or the range error
Gfp(value, isMapped) ==
  IF isMapped
    THEN IF value < 0 \/ value > GFP_PRIME
           THEN Err("Got a Gfp integer which exceeds the field size 0 to prime.")
           ELSE Ok(value)
    ELSE IF value < MIN_NEGATIVE \/ value >= GFP_NEGATIVE_BOUNDARY
           THEN Err("Got an integer which exceeds the field size -prime/2 to prime/2.")
           ELSE Ok(toMontgomery(IF value < 0 THEN value + GFP_PRIME ELSE value))

fromUserInput(integer) == Gfp(integer, FALSE)
fromSpdz(wireValue) == Gfp(wireValue, TRUE)

\* a faulty add that reduces modulo R instead of the prime
GfpAddWrong(x, y) == (x + y) % R

\* add and multiply of two stored values; the results are below the prime, so
\* the constructor they call never throws
\* a faulty multiply that leaves out the Montgomery reduction
GfpMultiplyPlain(x, y) == (x * y) % GFP_PRIME
GfpAdd(x, y) == (x + y) % GFP_PRIME
GfpMultiply(x, y) == (x * y * R_INVERSE) % GFP_PRIME
GfpEquals(x, y) == x = y
\* the end of toJSInteger: the number, or the overflow error
safeJSNumber(bigintVal) ==
  IF bigintVal >= -MAX_SAFE_INTEGER /\ bigintVal <= MAX_SAFE_INTEGER
    THEN Ok(bigintVal)
    ELSE Err("Overflow converting Gfp to JS Integer.")

toJSInteger(x) == safeJSNumber(fromGfpMapping(fromMontgomery(x)))

\* fix_decimal_bitlength, 20 in the library
fix_decimal_bitlength == 1

\* shiftedIntegerToJSFixed: Math.trunc(n / 2^f) + (n % 2^f) / 2^f, kept as the
\* whole part and the numerator of the fraction, both with the sign of n
shiftedIntegerToJSFixed(n, f) ==
  IF n >= 0
    THEN [whole |-> n \div Pow(2, f), fraction |-> n % Pow(2, f)]
    ELSE [whole |-> -((-n) \div Pow(2, f)), fraction |-> -((-n) % Pow(2, f))]

fixedOfJSInteger(r) ==
  IF r.ok THEN Ok(shiftedIntegerToJSFixed(r.val, fix_decimal_bitlength)) ELSE r

toJSFixedPoint(x) == fixedOfJSInteger(toJSInteger(x))

\* ------------------------------------------------- utility/binary.js

Reverse(s) == [i \in 1..Len(s) |-> s[Len(s) + 1 - i]]

\* binaryToHex followed by BigInt(hex, 16): the bytes read as a big endian integer
RECURSIVE BigEndianValue(_)
BigEndianValue(bytes) ==
  IF Len(bytes) = 0 THEN 0
  ELSE BigEndianValue(SubSeq(bytes, 1, Len(bytes) - 1)) * BYTE_RANGE + bytes[Len(bytes)]

\* toString(16) of a non negative integer: its hex digits, most significant first
RECURSIVE HexDigits(_)
HexDigits(n) == IF n < 16 THEN <<n>> ELSE HexDigits(n \div 16) \o <<n % 16>>

\* a faulty toNativeHexString that pads to two digits for every byte
toNativeHexStringPadded(x) ==
  [i \in 1..(2 * INTEGER_LENGTH_BYTES - Len(HexDigits(x))) |-> 0] \o HexDigits(x)

toNativeHexString(x) == HexDigits(x)

padHex(hex) == IF Len(hex) % 2 # 0 THEN <<0>> \o hex ELSE hex

\* Buffer.from(hex, 'hex'): one byte (0..255) for two hex digits
HexToBytes(hex) == [i \in 1..(Len(hex) \div 2) |-> 16 * hex[2 * i - 1] + hex[2 * i]]

\* bit j (0 is the first) of a byte sequence, 0 beyond its end
BitAt(bytes, j) ==
  IF j < 8 * Len(bytes)
    THEN (bytes[(j \div 8) + 1] \div Pow(2, 7 - (j % 8))) % 2
    ELSE 0

\* buf.toString('base64'): the 6 bit symbols, 64 standing for the padding '='
BytesToBase64(bytes) ==
  LET groups == (Len(bytes) + 2) \div 3
      sextets == (8 * Len(bytes) + 5) \div 6
  IN [k \in 1..(4 * groups) |->
        IF k > sextets THEN 64
        ELSE LET s[b \in 0..6] ==
                   IF b = 0 THEN 0
                   ELSE 2 * s[b - 1] + BitAt(bytes, 6 * (k - 1) + b - 1)
             IN s[6]]

base64Encode(hexString) == BytesToBase64(HexToBytes(padHex(hexString)))

\* ------------------------------------------ type_mapping/binaryToArray.js

checkBuffer(intSize, byteBufferList) ==
  \A p \in 1..Len(byteBufferList) : Len(byteBufferList[p]) % intSize = 0

\* the reduce of allSame: the accumulator is the first list, or NaN
allSameStep(a, b) ==
  IF a.nan THEN a
  ELSE IF Len(a.val) > 0 /\ Len(b) > 0 /\ Len(a.val) = Len(b)
            /\ \A i \in 1..Len(b) : GfpEquals(a.val[i], b[i])
         THEN a
         ELSE [nan |-> TRUE, val |-> <<>>]

allSame(list) ==
  IF Len(list) = 0 THEN TRUE
  ELSE LET acc[i \in 1..Len(list)] ==
             IF i = 1 THEN [nan |-> FALSE, val |-> list[1]]
             ELSE allSameStep(acc[i - 1], list[i])
       IN ~acc[Len(list)].nan

\* a list of results: every one a value, the values, the first error
AllOk(results) == \A k \in 1..Len(results) : results[k].ok
Values(results) == [k \in 1..Len(results) |-> results[k].val]
FirstError(results) ==
  results[CHOOSE k \in 1..Len(results) :
            ~results[k].ok /\ \A j \in 1..(k - 1) : results[j].ok]

\* the results of a map whose callback may throw: the list, or the first throw
Collect(results) == IF AllOk(results) THEN Ok(Values(results)) ELSE FirstError(results)

\* the callback of binaryToGfpArray: one buffer to its list of Gfp values
extractGfpArray(byteBuffer) ==
  Collect([k \in 1..(Len(byteBuffer) \div INTEGER_LENGTH_BYTES) |->
             fromSpdz(BigEndianValue(Reverse(
               SubSeq(byteBuffer, (k - 1) * INTEGER_LENGTH_BYTES + 1,
                      k * INTEGER_LENGTH_BYTES))))])

\* the end of binaryToGfpArray: the lists of all proxies must be the same
sameGfpArray(arrayMatrix) ==
  IF ~arrayMatrix.ok THEN arrayMatrix
  ELSE IF ~allSame(arrayMatrix.val)
    THEN Err("Not all parties have sent the same result.")
  ELSE Ok(arrayMatrix.val[1])

binaryToGfpArray(byteBufferList) ==
  IF Len(byteBufferList) = 0 THEN Err("No data to extract.")
  ELSE IF ~checkBuffer(INTEGER_LENGTH_BYTES, byteBufferList)
    THEN Err("Spdz proxy provided bytes, expected multiple of the integer size.")
  ELSE sameGfpArray(Collect([p \in 1..Len(byteBufferList) |->
                               extractGfpArray(byteBufferList[p])]))

\* the integers of binaryToIntArray are 4 bytes long
INT32_LENGTH_BYTES == 4

\* the callback of binaryToIntArray: DataView.getUint32(i, true) of every 4 bytes
extractIntArray(byteBuffer) ==
  [k \in 1..(Len(byteBuffer) \div INT32_LENGTH_BYTES) |->
     BigEndianValue(Reverse(
       SubSeq(byteBuffer, (k - 1) * INT32_LENGTH_BYTES + 1, k * INT32_LENGTH_BYTES)))]

binaryToIntArray(byteBufferList) ==
  IF Len(byteBufferList) = 0 THEN Err("No data to extract.")
  ELSE IF ~checkBuffer(INT32_LENGTH_BYTES, byteBufferList)
    THEN Err("Spdz proxy provided bytes, expected multiple of the integer size.")
  ELSE sameGfpArray(Ok([p \in 1..Len(byteBufferList) |->
                          extractIntArray(byteBufferList[p])]))

\* ------------------------------------------ type_mapping/binaryToShare.js

TRIPLE_BYTES == 3 * INTEGER_LENGTH_BYTES

\* the fields of a Triple from its decoded values
tripleFields(gfpArray) ==
  IF gfpArray.ok
    THEN Ok([a |-> gfpArray.val[1], b |-> gfpArray.val[2], c |-> gfpArray.val[3]])
    ELSE gfpArray

\* new Triple(byteBuffer)
Triple(byteBuffer) == tripleFields(binaryToGfpArray(<<byteBuffer>>))

TripleZero == [a |-> 0, b |-> 0, c |-> 0]

checkRelation(t) == GfpEquals(GfpMultiply(t.a, t.b), t.c)

TripleAdd(sumTriple, triple) ==
  [a |-> GfpAdd(sumTriple.a, triple.a),
   b |-> GfpAdd(sumTriple.b, triple.b),
   c |-> GfpAdd(sumTriple.c, triple.c)]

\* TRUE when checkBufferLength returns no message
checkBufferLength(clearValues) ==
  /\ \A p \in 1..Len(clearValues) :
       Len(clearValues[p]) > 0 /\ Len(clearValues[p]) % TRIPLE_BYTES = 0
  /\ \A p \in 1..Len(clearValues) : Len(clearValues[p]) = Len(clearValues[1])

\* the reduce over the triples of the proxies
sumTriples(triples) ==
  LET sum[p \in 0..Len(triples)] ==
        IF p = 0 THEN TripleZero ELSE TripleAdd(sum[p - 1], triples[p])
  IN sum[Len(triples)]

\* the verified sum of the triples of the proxies, or what was thrown
checkedTriple(triples) ==
  IF ~triples.ok THEN triples
  ELSE IF ~checkRelation(sumTriples(triples.val))
    THEN Err("Triple to be used for a share failed check.")
  ELSE Ok(sumTriples(triples.val))

\* triple i: decoded for every proxy, summed and verified
combinedTriple(byteBufferList, i) ==
  checkedTriple(Collect([p \in 1..Len(byteBufferList) |->
    Triple(SubSeq(byteBufferList[p], (i - 1) * TRIPLE_BYTES + 1, i * TRIPLE_BYTES))]))

combinedTriples(byteBufferList) ==
  [i \in 1..(Len(byteBufferList[1]) \div TRIPLE_BYTES) |->
     combinedTriple(byteBufferList, i)]

\* the a of every triple
tripleShares(triples) ==
  IF triples.ok THEN Ok([i \in 1..Len(triples.val) |-> triples.val[i].a]) ELSE triples

\* the triples that precede the first one that failed
passedTriples(results) ==
  Ok([i \in 1..Cardinality({k \in 1..Len(results) :
                              \A j \in 1..k : results[j].ok}) |-> results[i].val])

\* a faulty binaryToShare that returns the shares preceding a failed triple
binaryToShareKeepsPassed(byteBufferList) ==
  IF Len(byteBufferList) = 0
    THEN Err("Reduce of empty array with no initial value")
  ELSE IF ~checkBufferLength(byteBufferList)
    THEN Err("Shares from each proxy are expected to be the same byte length.")
  ELSE tripleShares(passedTriples(combinedTriples(byteBufferList)))

\* the default export: the list of the combined a values, or the error thrown
binaryToShare(byteBufferList) ==
  IF Len(byteBufferList) = 0
    THEN Err("Reduce of empty array with no initial value")
  ELSE IF ~checkBufferLength(byteBufferList)
    THEN Err("Shares from each proxy are expected to be the same byte length.")
  ELSE tripleShares(Collect(combinedTriples(byteBufferList)))

\* ------------------------------------------------ utility/listComparison.js

\* listComparison(list, (a, b) => a.eventType === b.eventType): the reduce keeps
\* the previous element, NaN after a failed comparison, true at the last index
listComparisonEventTypeStep(acc, b, isLast) ==
  IF acc.kind = "elem" /\ acc.val.eventType = b.eventType
    THEN IF isLast THEN [kind |-> "true", val |-> b]
                   ELSE [kind |-> "elem", val |-> b]
    ELSE [kind |-> "NaN", val |-> b]

listComparisonEventType(list) ==
  IF Len(list) <= 1 THEN TRUE
  ELSE LET acc[i \in 1..Len(list)] ==
             IF i = 1 THEN [kind |-> "elem", val |-> list[1]]
             ELSE listComparisonEventTypeStep(acc[i - 1], list[i], i = Len(list))
       IN acc[Len(list)].kind # "NaN"

\* the values of JavaScript a caller may put in a list: a number is kept in
\* quarters (q = 6 is 1.5), NaN is the number that equals nothing, and a value
\* that is no number has q = 0
JSNumber(q) == [type |-> "number", nan |-> FALSE, q |-> q]
NaN == [type |-> "number", nan |-> TRUE, q |-> 0]
JSString == [type |-> "string", nan |-> FALSE, q |-> 0]
JSBoolean(b) == [type |-> "boolean", nan |-> FALSE, q |-> IF b THEN 4 ELSE 0]

\* Number.isInteger(a), a === b and the truthiness !!a
NumberIsInteger(a) == a.type = "number" /\ ~a.nan /\ a.q % 4 = 0
StrictEquals(a, b) == ~a.nan /\ ~b.nan /\ a = b
Truthy(a) == ~a.nan /\ (a.type = "string" \/ a.q # 0)

\* the compare functions handed to listComparison in the library and its tests
CompareFunctions == {"strictEquals", "bothNumbers", "bothIntegers"}

compare(fn, a, b) ==
  IF fn = "strictEquals" THEN StrictEquals(a, b)
  ELSE IF fn = "bothNumbers" THEN a.type = "number" /\ b.type = "number"
  ELSE NumberIsInteger(a) /\ NumberIsInteger(b)

\* listComparison(list, compare): the reduce without an initial value starts
\* with list[0] and hands on b, NaN after a failed comparison, or true at the
\* last index; the result is the truthiness of what is left
listComparison(list, fn) ==
  IF Len(list) <= 1 THEN TRUE
  ELSE LET acc[i \in 1..Len(list)] ==
             IF i = 1 THEN list[1]
             ELSE IF compare(fn, acc[i - 1], list[i])
               THEN IF i = Len(list) THEN JSBoolean(TRUE) ELSE list[i]
               ELSE NaN
       IN Truthy(acc[Len(list)])

\* ------------------------------------------------ socket_api/transform.js

PROXY_CONNECT == "Proxy connect"
SPDZ_CONNECT == "SPDZ connect"
SEND_INPUT == "send input"
ERROR == "error"
TIMEOUT == "timeout"
EVENT_TYPE == {PROXY_CONNECT, SPDZ_CONNECT, SEND_INPUT, ERROR, TIMEOUT}

\* a faulty extractStatus that is content with half of the proxies
extractStatusOfHalf(msgList) ==
  2 * Cardinality({i \in 1..Len(msgList) : msgList[i].status}) >= Len(msgList)

\* msgList.reduce((a, b) => (a = a && b.status), true)
extractStatus(msgList) ==
  LET acc[i \in 0..Len(msgList)] ==
        IF i = 0 THEN TRUE ELSE acc[i - 1] /\ msgList[i].status
  IN acc[Len(msgList)]

\* a faulty flattenResponseMessage whose status is the OR of the statuses
flattenAnyTrue(msgList) ==
  [eventType |-> IF listComparisonEventType(msgList)
                   THEN msgList[1].eventType ELSE ERROR,
   status |-> \E i \in 1..Len(msgList) : msgList[i].status,
   msg |-> msgList]

\* the assert on an empty list is a precondition of every call below
flattenResponseMessage(msgList) ==
  LET allSameType == listComparisonEventType(msgList)
  IN [eventType |-> IF allSameType THEN msgList[1].eventType ELSE ERROR,
      status |-> IF allSameType THEN extractStatus(msgList) ELSE FALSE,
      msg |-> msgList]

extractValidateShares(byteBufferList) == binaryToShare(byteBufferList)

MESSAGE_TYPE ==
  [NOTYPE |-> 0, TRIPLE_SHARES |-> 1, CLEAR_MODP_INT |-> 2, INT_32 |-> 3,
   CLEAR_MODP_FIX |-> 4]

messageTypeExists(magicNumber) ==
  \E k \in DOMAIN MESSAGE_TYPE : MESSAGE_TYPE[k] = magicNumber

\* crypto.decrypt: a message of a proxy is [keyed, opens, bytes]; when it was
\* encrypted (keyed) bytes is its plain text, and opens tells whether
\* crypto_secretbox_open_easy accepts it
decrypt(message) ==
  IF message.opens THEN Ok(message.bytes) ELSE Err("Authentication/decryption failed.")

\* the end of parseSpdzMessage: the header is checked and taken off
parsedMessage(clearBytes, messageType) ==
  IF ~messageTypeExists(messageType)
    THEN Err("Unknown message type.")
    ELSE Ok([messageType |-> messageType,
             data |-> SubSeq(clearBytes, 5, Len(clearBytes))])

parseClearBytes(clear) ==
  IF ~clear.ok THEN clear
  ELSE IF Len(clear.val) < 8
    THEN Err("Message from SPDZ must be at least 8 bytes.")
  ELSE parsedMessage(clear.val, binaryToIntArray(<<SubSeq(clear.val, 1, 4)>>).val[1])

\* a faulty parseSpdzMessage that reads the first byte as the message type
parseSpdzMessageFirstByte(message) ==
  IF message.keyed /\ ~message.opens THEN decrypt(message)
  ELSE IF Len(message.bytes) < 8
    THEN Err("Message from SPDZ must be at least 8 bytes.")
  ELSE parsedMessage(message.bytes, message.bytes[1])

\* parseSpdzMessage: the message and its data, or the Bacon.Error made of any throw
parseSpdzMessage(message) ==
  parseClearBytes(IF message.keyed THEN decrypt(message) ELSE Ok(message.bytes))

\* gfpResultList.map(gfp => gfp.toJSInteger()) and .map(gfp => gfp.toJSFixedPoint())
gfpListToJSIntegers(r) ==
  IF r.ok THEN Collect([i \in 1..Len(r.val) |-> toJSInteger(r.val[i])]) ELSE r

gfpListToJSFixedPoints(r) ==
  IF r.ok THEN Collect([i \in 1..Len(r.val) |-> toJSFixedPoint(r.val[i])]) ELSE r

convertOutputOfType(messageType, byteBufferList) ==
  IF messageType = MESSAGE_TYPE.CLEAR_MODP_INT
    THEN gfpListToJSIntegers(binaryToGfpArray(byteBufferList))
  ELSE IF messageType = MESSAGE_TYPE.INT_32
    THEN binaryToIntArray(byteBufferList)
  ELSE IF messageType = MESSAGE_TYPE.CLEAR_MODP_FIX
    THEN gfpListToJSFixedPoints(binaryToGfpArray(byteBufferList))
  ELSE Err("Got output stream with message type not currently handled.")

\* a faulty convertOutput that gives an empty result where decoding fails
convertOutputOrEmpty(dataList) ==
  Ok(convertOutputOfType(dataList[Len(dataList)].messageType,
                         [p \in 1..Len(dataList) |-> dataList[p].data]).val)

\* convertOutput: the reduce leaves the message type of the last proxy
convertOutput(dataList) ==
  convertOutputOfType(
    IF Len(dataList) = 0 THEN MESSAGE_TYPE.NOTYPE
    ELSE dataList[Len(dataList)].messageType,
    [p \in 1..Len(dataList) |-> dataList[p].data])

\* convertUserInput of a list of integers: the list is returned as it is
\* (lists holding a non integer number are outside the model)
convertUserInput(inputList) == inputList

\* fix_whole_bitlength, 40 in the library
fix_whole_bitlength == 3

\* Math.trunc(number) and Math.round(number * 2^f) of a number kept in quarters
MathTrunc(q) == IF q >= 0 THEN q \div 4 ELSE -((-q) \div 4)
MathRoundShifted(q, f) == (q * Pow(2, f) + 2) \div 4

\* jsNumberToShiftedInteger(number, f, k): the assertion fails for an integer
\* part above 2^(k - f) - 1 and for what Math.trunc turns into NaN (a string)
jsNumberToShiftedInteger(number, f, k) ==
  IF number.nan \/ number.type = "string"
       \/ ~(MathTrunc(number.q) <= Pow(2, k - f) - 1)
    THEN Err("Converting real number to fixed point, integer part exceeded bits.")
    ELSE Ok(JSNumber(4 * MathRoundShifted(number.q, f)))

\* convertUserInput of a list of any values: the throw for a list that is not
\* found to hold numbers only, the list as it is when it is found to hold
\* integers only, and the shifted integers of its elements otherwise
convertUserInputOfValues(inputList) ==
  IF ~listComparison(inputList, "bothNumbers")
    THEN Err("User input values must be numbers.")
  ELSE IF listComparison(inputList, "bothIntegers")
    THEN Ok(inputList)
  ELSE Collect([i \in 1..Len(inputList) |->
                  jsNumberToShiftedInteger(inputList[i], fix_decimal_bitlength,
                                           fix_whole_bitlength)])

\* the callback of sendValueStream's flatMap: the encoded list to send, a
\* Bacon.Error for lists of different length (val holds the n and m of 'Trying
\* to send n input(s) but m share(s) suppled.'), or the throw of Gfp.fromUserInput
sendValue(inputList, shareList) ==
  IF Len(inputList) # Len(shareList)
    THEN [kind |-> "error", val |-> <<Len(inputList), Len(shareList)>>]
  ELSE IF \E i \in 1..Len(inputList) : ~fromUserInput(inputList[i]).ok
    THEN [kind |-> "throw", val |-> <<>>]
  ELSE [kind |-> "value",
        val |-> [i \in 1..Len(inputList) |->
                   base64Encode(toNativeHexString(
                     GfpAdd(shareList[i], fromUserInput(inputList[i]).val)))]]

\* sendValueStreamErrors: an error of sendValueStream as a client response
sendValueStreamErrors == <<[eventType |-> SEND_INPUT, status |-> FALSE]>>

\* ----------------------------------------------------------- Bacon streams

\* a faulty combineAsArray that does not wait for every stream
combineAsArrayEager(type, latest) ==
  <<[p \in Parties |-> [eventType |-> type, status |-> latest[p] = "up"]]>>

\* Bacon.combineAsArray over the proxies' connection streams: nothing before
\* every stream has a value, then the array of the latest values
combineAsArray(type, latest) ==
  IF \A p \in Parties : latest[p] # "none"
    THEN <<[p \in Parties |-> [eventType |-> type, status |-> latest[p] = "up"]]>>
    ELSE <<>>

\* a faulty zip that leaves the value it takes in the buffer
zipKeepsValue(buf) == [item |-> Head(buf), rest |-> buf]

\* a faulty zip that takes the newest buffered value
zipNewest(buf) == [item |-> buf[Len(buf)], rest |-> SubSeq(buf, 1, Len(buf) - 1)]

\* userInputBus.zip(extractedSharesStream): a pair takes the oldest value of a side
zip(buf) == [item |-> Head(buf), rest |-> Tail(buf)]

\* a faulty zipAsArray that takes the newest buffered value of every proxy
zipAsArrayNewest(bufs) ==
  [unit |-> [p \in Parties |-> bufs[p][Len(bufs[p])]],
   rest |-> [p \in Parties |-> SubSeq(bufs[p], 1, Len(bufs[p]) - 1)]]

\* Bacon.zipAsArray over the proxies' streams: a unit takes the oldest value of each
zipAsArray(bufs) ==
  [unit |-> [p \in Parties |-> Head(bufs[p])],
   rest |-> [p \in Parties |-> Tail(bufs[p])]]

\* webSocketBus.push: every socket emits the command
webSocketBusPush(out, cmd) == [p \in Parties |-> Append(out[p], cmd)]

\* ------------------------------------------------ socket_api/promisify.js

WaitKinds == {"proxy", "connect", "disconnect"}

\* a promise and the subscription made for it; settles counts the calls of
\* resolve and reject, threw records that the request itself threw
IdleWait ==
  [state |-> "idle", reason |-> "", subscribed |-> FALSE, timer |-> "none",
   settles |-> 0, threw |-> FALSE]

\* streamWithTimeout(stream, timeoutMs).onValue(handler)
BoundedWait == [IdleWait EXCEPT !.state = "pending", !.subscribed = TRUE, !.timer = "armed"]

\* clientResponsesStream.onValue(handler): no timer is merged in
UnboundedWait == [IdleWait EXCEPT !.state = "pending", !.subscribed = TRUE]

\* resolve and reject of a promise: only the first call settles it
resolve(w) ==
  [w EXCEPT !.state = IF w.state = "pending" THEN "resolved" ELSE @,
            !.settles = IF @ < 2 THEN @ + 1 ELSE @]

reject(w, msg) ==
  [w EXCEPT !.state = IF w.state = "pending" THEN "rejected" ELSE @,
            !.reason = IF w.state = "pending" THEN msg ELSE @,
            !.settles = IF @ < 2 THEN @ + 1 ELSE @]

\* the catch of the request made after subscribing
rejectThrown(w, msg) == [reject(w, msg) EXCEPT !.threw = TRUE]

\* a faulty handler ending that leaves the subscription in place
keepSubscription(w) == w

unsubscribeResponses(w) == [w EXCEPT !.subscribed = FALSE]

\* the onValue handler of connectToSpdzProxyPromise
ProxyWaitHandler(w, value) ==
  IF value.eventType = PROXY_CONNECT /\ value.status
    THEN unsubscribeResponses(resolve(w))
  ELSE IF value.eventType = TIMEOUT
    THEN unsubscribeResponses(reject(w, "Unable to connect to SPDZ proxies."))
  ELSE w

\* a faulty handler that resolves on a SPDZ connect event of any status
SpdzConnectWaitHandlerAnyStatus(w, value) ==
  IF value.eventType = SPDZ_CONNECT
    THEN unsubscribeResponses(resolve(w))
  ELSE IF value.eventType = TIMEOUT
    THEN unsubscribeResponses(reject(w, "Unable to connect to SPDZ engines."))
  ELSE w

\* the onValue handler of connectToSpdzPartyPromise
SpdzConnectWaitHandler(w, value) ==
  IF value.eventType = SPDZ_CONNECT /\ value.status
    THEN unsubscribeResponses(resolve(w))
  ELSE IF value.eventType = TIMEOUT
    THEN unsubscribeResponses(reject(w, "Unable to connect to SPDZ engines."))
  ELSE w

\* the onValue handler of disconnectFromSpdzPartyPromise
SpdzDisconnectWaitHandler(w, value) ==
  IF value.eventType = SPDZ_CONNECT /\ ~value.status
    THEN unsubscribeResponses(resolve(w))
  ELSE IF value.eventType = TIMEOUT
    THEN unsubscribeResponses(reject(w, "Unable to disconnect from SPDZ engines."))
  ELSE w

WaitHandler(k, w, value) ==
  CASE k = "proxy" -> ProxyWaitHandler(w, value)
    [] k = "connect" -> SpdzConnectWaitHandler(w, value)
    [] k = "disconnect" -> SpdzDisconnectWaitHandler(w, value)

\* the onValue handler of sendInputsPromise
SendWaitHandler(w, value) ==
  IF value.eventType = SEND_INPUT
    THEN IF value.status
           THEN unsubscribeResponses(resolve(w))
           ELSE unsubscribeResponses(reject(w, "Unable to send inputs."))
  ELSE IF value.eventType = ERROR
    THEN unsubscribeResponses(reject(w, "Unable to send inputs."))
  ELSE w

\* an event of a stream reaches the handlers subscribed at that moment
DeliverToWaits(ws, value) ==
  [k \in WaitKinds |-> IF ws[k].subscribed THEN WaitHandler(k, ws[k], value) ELSE ws[k]]

DeliverToSendWaits(ws, value) ==
  [i \in 1..Len(ws) |-> IF ws[i].subscribed THEN SendWaitHandler(ws[i], value) ELSE ws[i]]

\* clientResponseStream has a subscriber
ResponsesSubscribed(ws) == \E i \in 1..Len(ws) : ws[i].subscribed

\* a sendData_result of proxy p reaches otherResponseStream once for every
\* listener its binder has put on the socket; zipAsArray buffers it while
\* clientResponseStream has a subscriber, and a unit is flattened for the handlers
RECURSIVE SinkResponse(_, _, _, _, _)
ResponseUnit(n, z, ws, p, status) ==
  SinkResponse(n, z.rest, DeliverToSendWaits(ws, flattenResponseMessage(z.unit)), p, status)

ResponseArrives(n, bufs, ws, p, status) ==
  IF \A q \in Parties : bufs[q] # <<>>
    THEN ResponseUnit(n, zipAsArray(bufs), ws, p, status)
    ELSE SinkResponse(n, bufs, ws, p, status)

SinkResponse(n, bufs, ws, p, status) ==
  IF n = 0 \/ ~ResponsesSubscribed(ws) THEN [bufs |-> bufs, ws |-> ws]
  ELSE ResponseArrives(n - 1,
         [bufs EXCEPT ![p] = Append(@, [eventType |-> SEND_INPUT, status |-> status])],
         ws, p, status)

\* the flatMap callback applied to the oldest input batch and share batch
Paired(i, e) ==
  [fired |-> TRUE, inBuf |-> i.rest, exBuf |-> e.rest,
   input |-> i.item, share |-> e.item,
   out |-> sendValue(i.item.vals, e.item.vals)]

\* the pairing of userInputBus with extractedSharesStream after an arrival
PairOutcome(inBuf, exBuf) ==
  IF inBuf = <<>> \/ exBuf = <<>>
    THEN [fired |-> FALSE, inBuf |-> inBuf, exBuf |-> exBuf]
    ELSE Paired(zip(inBuf), zip(exBuf))

Min(a, b) == IF a <= b THEN a ELSE b

\* ------------------------------------------------------------------ state

VARIABLES
  shareInput,          \* the buffers handed to binaryToShare (one per proxy)
  shareResult,         \* what binaryToShare returned or threw
  flatInput,           \* the messages handed to flattenResponseMessage
  flatResult,          \* what flattenResponseMessage returned
  codecCall,           \* the function of the library that is called, and its argument
  codecResult,         \* what it returned or threw
  outputsBuf,          \* per proxy, output messages waiting in combinedOutputsStream
  routeHistory,        \* history of spdzMessageStream and spdzResultStream
  dhKeyPair,           \* crypto/index.js: the memoized key pair of the client
  cipherMessage,       \* the last message encrypt returned
  cryptoHistory,       \* the last call of crypto/index.js and what it returned
  clientIds,           \* ClientIds.js: the client id stored for a url
  restCall,            \* the request of SpdzApiAggregate.js in flight, or the last one
  restHistory,         \* history of the requests of SpdzApiAggregate.js
  proxyCalls,          \* socketApi.js: the calls of connectToSPDZProxy made so far
  busSockets,          \* per call and proxy, the commands the socket of that call emitted
  busQueues,           \* per call, the zip of userInputBus with the shares of that call
  busHistory,          \* history of the requests made of webSocketBus and userInputBus
  connectionStream,    \* promisify.js: connectionStream and clientResponsesStream are defined
  proxyLatest,         \* latest value of each proxyConnectionStream: "none", "up", "down"
  spdzLatest,          \* latest value of each spdzConnectionStream
  connectedToProxies,  \* socketApi.js flag
  connectedToSpdz,     \* socketApi.js flag
  waits,               \* the promises of the three bounded requests
  socketOut,           \* per proxy, the commands emitted and not yet answered
  connHistory,         \* history of the connection stream
  userInputBuf,        \* input batches waiting in the zip of sendValueStream
  extractedBuf,        \* share batches waiting in the zip of sendValueStream
  sharesBuf,           \* per proxy, share messages waiting in combinedSharesStream
  respBuf,             \* per proxy, responses waiting in combinedOtherResponseStream
  respBinds,           \* listeners put on a socket by the binder of otherResponseStream
  sendWaits,           \* the promises of the send requests, in call order
  sendHistory          \* history of the send streams

routeVars == <<outputsBuf, routeHistory>>
cryptoVars == <<dhKeyPair, cipherMessage, cryptoHistory>>
restVars == <<clientIds, restCall, restHistory>>
busVars == <<proxyCalls, busSockets, busQueues, busHistory>>
libVars == <<routeVars, cryptoVars, restVars, busVars>>
pureVars == <<shareInput, shareResult, flatInput, flatResult, codecCall, codecResult,
              libVars>>
connVars == <<connectionStream, proxyLatest, spdzLatest, connectedToProxies,
              connectedToSpdz, waits, socketOut, connHistory>>
sendVars == <<userInputBuf, extractedBuf, sharesBuf, respBuf, respBinds,
              sendWaits, sendHistory>>
vars == <<pureVars, connVars, sendVars>>

NotCalled == [done |-> FALSE, res |-> Err("")]
Called(r) == [done |-> TRUE, res |-> r]

RouteIdle ==
  /\ outputsBuf = [p \in Parties |-> <<>>]
  /\ routeHistory = [received |-> [p \in Parties |-> 0],
                     routed |-> <<>>,
                     outUnits |-> <<>>,
                     results |-> <<>>,
                     resultErrors |-> <<>>]

\* no key pair yet, nothing encrypted
Undefined == [defined |-> FALSE, clientPublicKey |-> 0, clientPrivateKey |-> 0]
NoCipherMessage == [sealed |-> FALSE, key |-> 0, clear |-> <<>>, bytes |-> <<>>]

CryptoIdle ==
  /\ dhKeyPair = Undefined
  /\ cipherMessage = NoCipherMessage
  /\ cryptoHistory = [fn |-> "none", arg |-> <<>>, res |-> Err(""), before |-> Undefined]

Urls == 1..NumParties
NoClientId == 0
NoRestCall ==
  [kind |-> "none", list |-> <<>>, hasUrl |-> TRUE, encrypted |-> FALSE,
   entries |-> <<>>, settled |-> "resolved", value |-> <<>>,
   idsAtCall |-> [u \in Urls |-> NoClientId], disconnectedAtCall |-> {}]

RestIdle ==
  /\ clientIds = [u \in Urls |-> NoClientId]
  /\ restCall = NoRestCall
  /\ restHistory = [disconnected |-> {}, calls |-> 0]

\* connectToSPDZProxy has not been called: the buses have no subscriber
BusIdle ==
  /\ proxyCalls = 0
  /\ busSockets = [c \in 1..MaxProxyCalls |-> [p \in Parties |-> <<>>]]
  /\ busQueues = [c \in 1..MaxProxyCalls |-> [inputs |-> <<>>, shares |-> <<>>]]
  /\ busHistory = [requests |-> 0, batches |-> 0, taken |-> <<>>,
                   shareBatches |-> [c \in 1..MaxProxyCalls |-> 0]]

LibIdle == RouteIdle /\ CryptoIdle /\ RestIdle /\ BusIdle

\* nothing called, nothing connected, nothing sent
PureIdle ==
  /\ LibIdle
  /\ shareInput = <<>>
  /\ shareResult = NotCalled
  /\ flatInput = <<>>
  /\ flatResult = NotCalled
  /\ codecCall = [fn |-> "none"]
  /\ codecResult = NotCalled

ConnIdle ==
  /\ connectionStream = FALSE
  /\ proxyLatest = [p \in Parties |-> "none"]
  /\ spdzLatest = [p \in Parties |-> "none"]
  /\ connectedToProxies = FALSE
  /\ connectedToSpdz = FALSE
  /\ waits = [k \in WaitKinds |-> IdleWait]
  /\ socketOut = [p \in Parties |-> <<>>]
  /\ connHistory = [proxyReports |-> [p \in Parties |-> 0],
                    proxyAggCount |-> 0,
                    lastProxyStatus |-> FALSE,
                    lastSpdzStatus |-> FALSE,
                    lastAgg |-> [eventType |-> "none", status |-> FALSE, tick |-> FALSE]]

SendIdle ==
  /\ userInputBuf = <<>>
  /\ extractedBuf = <<>>
  /\ sharesBuf = [p \in Parties |-> <<>>]
  /\ respBuf = [p \in Parties |-> <<>>]
  /\ respBinds = 0
  /\ sendWaits = <<>>
  /\ sendHistory = [inputsAccepted |-> 0,
                    shareBatches |-> 0,
                    fed |-> [p \in Parties |-> 0],
                    zipUnits |-> <<>>,
                    pairLog |-> <<>>,
                    socketLog |-> [p \in Parties |-> <<>>],
                    spdzErrors |-> <<>>,
                    failedFor |-> {}]

\* ---------------------------------------- binaryToShare as a pure function

\* the little endian bytes of a wire value, as a SPDZ engine writes them
RECURSIVE WireBytes(_, _)
WireBytes(value, n) ==
  IF n = 0 THEN <<>> ELSE <<value % BYTE_RANGE>> \o WireBytes(value \div BYTE_RANGE, n - 1)

TripleBytes(a, b, c) ==
  WireBytes(a, INTEGER_LENGTH_BYTES) \o WireBytes(b, INTEGER_LENGTH_BYTES)
    \o WireBytes(c, INTEGER_LENGTH_BYTES)

\* the c of a triple whose a and b are given, in Montgomery form
ValidC(a, b) == (a * b * R_INVERSE) % GFP_PRIME

\* the triples a proxy sends in the model: the zero triple, two shares that
\* pass the check only when summed, the value GFP_PRIME itself and a value above it
TripleSamples ==
  { TripleBytes(0, 0, 0),
    TripleBytes(1, 2, 0),
    TripleBytes(2, 2, ValidC(3, 4)),
    TripleBytes(GFP_PRIME, 0, 0),
    TripleBytes(GFP_PRIME + 1, 0, 0) }

RECURSIVE ShareBuffers(_)
ShareBuffers(m) ==
  IF m = 0 THEN {<<>>}
  ELSE {t \o rest : t \in TripleSamples, rest \in ShareBuffers(m - 1)}

InitShare ==
  /\ LibIdle
  /\ shareInput \in UNION {[Parties -> ShareBuffers(m)] : m \in 1..MaxTriples}
  /\ shareResult = NotCalled
  /\ flatInput = <<>>
  /\ flatResult = NotCalled
  /\ codecCall = [fn |-> "none"]
  /\ codecResult = NotCalled
  /\ ConnIdle
  /\ SendIdle

CallBinaryToShare ==
  /\ ~shareResult.done
  /\ shareResult' = Called(binaryToShare(shareInput))
  /\ UNCHANGED <<shareInput, flatInput, flatResult, codecCall, codecResult, libVars,
                 connVars, sendVars>>

NextShare == CallBinaryToShare

SpecShare == InitShare /\ [][NextShare]_vars

\* -------------------------------- flattenResponseMessage as a pure function

MessageSamples ==
  [eventType : {PROXY_CONNECT, SPDZ_CONNECT, SEND_INPUT}, status : BOOLEAN]

InitFlatten ==
  /\ LibIdle
  /\ flatInput \in UNION {[1..n -> MessageSamples] : n \in 1..(NumParties + 1)}
  /\ flatResult = NotCalled
  /\ shareInput = <<>>
  /\ shareResult = NotCalled
  /\ codecCall = [fn |-> "none"]
  /\ codecResult = NotCalled
  /\ ConnIdle
  /\ SendIdle

CallFlattenResponseMessage ==
  /\ ~flatResult.done
  /\ flatResult' = Called(flattenResponseMessage(flatInput))
  /\ UNCHANGED <<shareInput, shareResult, flatInput, codecCall, codecResult, libVars,
                 connVars, sendVars>>

NextFlatten == CallFlattenResponseMessage

SpecFlatten == InitFlatten /\ [][NextFlatten]_vars

\* ------------------------- Gfp, parseSpdzMessage and binaryToArray as functions

\* the integers a caller hands to Gfp.fromUserInput
UserIntegers == (-GFP_PRIME)..GFP_PRIME

\* the clear bytes of the messages a proxy sends: headers of the five message
\* types, of an unknown type and of two types whose upper bytes are set, with
\* no data, three bytes, four bytes and six bytes of data, and two short ones
HeaderSamples == {0, 1, 2, 3, 4, 5, 1 + Pow(BYTE_RANGE, 3), Pow(BYTE_RANGE, 4) - 1}
DataSamples == {<<>>, <<1, 2, 3>>, <<1, 2, 3, 0>>, <<1, 0, 2, 0, 3, 0>>}
ClearBytesSamples ==
  {WireBytes(h, 4) \o d : h \in HeaderSamples, d \in DataSamples} \cup {<<>>, <<1>>}

SpdzMessageSamples ==
  {[keyed |-> FALSE, opens |-> TRUE, bytes |-> b] : b \in ClearBytesSamples}
    \cup {[keyed |-> TRUE, opens |-> o, bytes |-> b] :
             o \in BOOLEAN, b \in ClearBytesSamples}

\* the buffers of int32 results: none, one, two, one whose upper byte is set
\* and one of a wrong length
IntBufferSamples ==
  {<<>>, WireBytes(1, 4), WireBytes(2, 4), WireBytes(1, 4) \o WireBytes(2, 4),
   WireBytes(1, 4) \o WireBytes(3, 4), WireBytes(1 + Pow(BYTE_RANGE, 3), 4),
   <<1, 0, 0>>}

\* the buffers of Gfp results: none, one, two, the prime, a value above it and
\* one of a wrong length
GfpBufferSamples ==
  {<<>>, WireBytes(1, INTEGER_LENGTH_BYTES), WireBytes(2, INTEGER_LENGTH_BYTES),
   WireBytes(1, INTEGER_LENGTH_BYTES) \o WireBytes(2, INTEGER_LENGTH_BYTES),
   WireBytes(1, INTEGER_LENGTH_BYTES) \o WireBytes(3, INTEGER_LENGTH_BYTES),
   WireBytes(GFP_PRIME, INTEGER_LENGTH_BYTES),
   WireBytes(GFP_PRIME + 1, INTEGER_LENGTH_BYTES), <<1>>}

BufferLists(samples) == UNION {[1..n -> samples] : n \in 1..(NumParties + 1)}

CodecCalls ==
  {[fn |-> "fromUserInput.toJSInteger", arg |-> v] : v \in UserIntegers}
    \cup {[fn |-> "parseSpdzMessage", arg |-> m] : m \in SpdzMessageSamples}
    \cup {[fn |-> "binaryToIntArray", arg |-> l] : l \in BufferLists(IntBufferSamples)}
    \cup {[fn |-> "binaryToGfpArray", arg |-> l] : l \in BufferLists(GfpBufferSamples)}

InitCodec ==
  /\ LibIdle
  /\ codecCall \in CodecCalls
  /\ codecResult = NotCalled
  /\ shareInput = <<>>
  /\ shareResult = NotCalled
  /\ flatInput = <<>>
  /\ flatResult = NotCalled
  /\ ConnIdle
  /\ SendIdle

CodecReturns(fn, r) ==
  /\ ~codecResult.done
  /\ codecCall.fn = fn
  /\ codecResult' = Called(r)
  /\ UNCHANGED <<codecCall, shareInput, shareResult, flatInput, flatResult,
                 libVars, connVars, sendVars>>

\* Gfp.fromUserInput(v).toJSInteger()
jsIntegerOf(gfp) == IF gfp.ok THEN toJSInteger(gfp.val) ELSE gfp

CallFromUserInputToJSInteger ==
  CodecReturns("fromUserInput.toJSInteger", jsIntegerOf(fromUserInput(codecCall.arg)))

CallParseSpdzMessage ==
  CodecReturns("parseSpdzMessage", parseSpdzMessage(codecCall.arg))

CallBinaryToIntArray ==
  CodecReturns("binaryToIntArray", binaryToIntArray(codecCall.arg))

CallBinaryToGfpArray ==
  CodecReturns("binaryToGfpArray", binaryToGfpArray(codecCall.arg))

NextCodec ==
  \/ CallFromUserInputToJSInteger
  \/ CallParseSpdzMessage
  \/ CallBinaryToIntArray
  \/ CallBinaryToGfpArray

SpecCodec == InitCodec /\ [][NextCodec]_vars

\* ------------------------- listComparison and convertUserInput as functions

\* the values a list holds: 0, 1, 1.5, a string and false
JSValueSamples == {JSNumber(0), JSNumber(4), JSNumber(6), JSString, JSBoolean(FALSE)}

JSLists == UNION {[1..n -> JSValueSamples] : n \in 0..MaxListLen}

ListCalls ==
  {[fn |-> "listComparison", arg |-> [list |-> l, compare |-> c]] :
     l \in JSLists, c \in CompareFunctions}
    \cup {[fn |-> "convertUserInput", arg |-> [list |-> l, compare |-> "none"]] :
            l \in JSLists}

InitList ==
  /\ LibIdle
  /\ codecCall \in ListCalls
  /\ codecResult = NotCalled
  /\ shareInput = <<>>
  /\ shareResult = NotCalled
  /\ flatInput = <<>>
  /\ flatResult = NotCalled
  /\ ConnIdle
  /\ SendIdle

\* the boolean listComparison returns, as a result that never throws
CallListComparison ==
  CodecReturns("listComparison",
               Ok(<<listComparison(codecCall.arg.list, codecCall.arg.compare)>>))

CallConvertUserInput ==
  CodecReturns("convertUserInput", convertUserInputOfValues(codecCall.arg.list))

NextList ==
  \/ CallListComparison
  \/ CallConvertUserInput

SpecList == InitList /\ [][NextList]_vars

\* ------------------------------------------------ the calls of math/Gfp.js

\* the values a Gfp instance can hold: fromSpdz takes 0 up to the prime itself
GfpInstances == 0..GFP_PRIME
WireValues == (-1)..(GFP_PRIME + 1)

GfpCalls ==
  {[fn |-> "fromUserInput", arg |-> v] : v \in UserIntegers}
    \cup {[fn |-> "fromSpdz", arg |-> w] : w \in WireValues}
    \cup {[fn |-> "add.multiply", arg |-> a] :
            a \in GfpInstances \X GfpInstances \X GfpInstances}
    \cup {[fn |-> "fromUserInput.add.multiply", arg |-> a] :
            a \in UserIntegers \X UserIntegers}
    \cup {[fn |-> "toNativeHexString", arg |-> s] : s \in GfpInstances}

InitGfp ==
  /\ LibIdle
  /\ codecCall \in GfpCalls
  /\ codecResult = NotCalled
  /\ shareInput = <<>>
  /\ shareResult = NotCalled
  /\ flatInput = <<>>
  /\ flatResult = NotCalled
  /\ ConnIdle
  /\ SendIdle

\* the sums and products of three instances x, y and z
gfpAlgebra(x, y, z) ==
  [addXY |-> GfpAdd(x, y),
   addYX |-> GfpAdd(y, x),
   addXY_Z |-> GfpAdd(GfpAdd(x, y), z),
   addX_YZ |-> GfpAdd(x, GfpAdd(y, z)),
   mulXY |-> GfpMultiply(x, y),
   mulYX |-> GfpMultiply(y, x),
   mulXY_Z |-> GfpMultiply(GfpMultiply(x, y), z),
   mulX_YZ |-> GfpMultiply(x, GfpMultiply(y, z)),
   mulX_addYZ |-> GfpMultiply(x, GfpAdd(y, z)),
   addMulXY_mulXZ |-> GfpAdd(GfpMultiply(x, y), GfpMultiply(x, z))]

\* Gfp.fromUserInput(x).add(Gfp.fromUserInput(y)) and the same with multiply
gfpUserAlgebra(a, b) ==
  IF ~a.ok THEN a
  ELSE IF ~b.ok THEN b
  ELSE Ok([sum |-> GfpAdd(a.val, b.val), product |-> GfpMultiply(a.val, b.val)])

CallFromUserInput == CodecReturns("fromUserInput", fromUserInput(codecCall.arg))

CallFromSpdz == CodecReturns("fromSpdz", fromSpdz(codecCall.arg))

CallAddMultiply ==
  CodecReturns("add.multiply",
               Ok(gfpAlgebra(codecCall.arg[1], codecCall.arg[2], codecCall.arg[3])))

CallUserAddMultiply ==
  CodecReturns("fromUserInput.add.multiply",
               gfpUserAlgebra(fromUserInput(codecCall.arg[1]),
                              fromUserInput(codecCall.arg[2])))

CallToNativeHexString ==
  CodecReturns("toNativeHexString", Ok(toNativeHexString(codecCall.arg)))

NextGfp ==
  \/ CallFromUserInput
  \/ CallFromSpdz
  \/ CallAddMultiply
  \/ CallUserAddMultiply
  \/ CallToNativeHexString

SpecGfp == InitGfp /\ [][NextGfp]_vars

\* ------------------------------------------------------- crypto/index.js

crypto_secretbox_MACBYTES == 16
crypto_box_NONCEBYTES == 24

\* sodium.randombytes_buf gives one of the private keys and one of the nonces;
\* a nonce is told by its first byte
PrivateKeys == 1..2
Nonces == {[i \in 1..crypto_box_NONCEBYTES |-> IF i = 1 THEN n ELSE 0] : n \in 0..1}

\* sodium.crypto_scalarmult_base and sodium.crypto_scalarmult: the public key
\* of a private key, and the secret two key pairs share
crypto_scalarmult_base(privateKey) == privateKey + 10
crypto_scalarmult(privateKey, publicKey) == privateKey * (publicKey - 10)

\* sodium.crypto_generichash over the shared secret and the two public keys
crypto_generichash(sharedSecret, clientPublicKey, serverPublicKey) ==
  (sharedSecret * 100 + clientPublicKey) * 100 + serverPublicKey

\* sodium.crypto_secretbox_easy: the tag, that tells the key, the nonce and the
\* cipher text it was made of, then the cipher text
secretboxCipher(message, nonce, key) ==
  [i \in 1..Len(message) |-> (message[i] + key + nonce[1] + i) % BYTE_RANGE]

secretboxClear(cipher, nonce, key) ==
  [i \in 1..Len(cipher) |-> (cipher[i] + BYTE_RANGE * (key + 2) - key - nonce[1] - i)
                               % BYTE_RANGE]

secretboxTag(cipher, nonce, key) ==
  [i \in 1..crypto_secretbox_MACBYTES |->
     IF i = 1 THEN key
     ELSE IF i = 2 THEN nonce[1]
     ELSE IF i = 3 THEN Len(cipher)
     ELSE IF i - 3 <= Len(cipher) THEN cipher[i - 3]
     ELSE 0]

crypto_secretbox_easy(message, nonce, key) ==
  secretboxTag(secretboxCipher(message, nonce, key), nonce, key)
    \o secretboxCipher(message, nonce, key)

\* sodium.crypto_secretbox_open_easy: the clear text, or a throw when the tag
\* is not the one of this key, nonce and cipher text
crypto_secretbox_open_easy(macCipher, nonce, key) ==
  IF Len(macCipher) < crypto_secretbox_MACBYTES
       \/ SubSeq(macCipher, 1, crypto_secretbox_MACBYTES)
            # secretboxTag(SubSeq(macCipher, crypto_secretbox_MACBYTES + 1, Len(macCipher)),
                           nonce, key)
    THEN Err("incorrect key pair for the given ciphertext")
    ELSE Ok(secretboxClear(SubSeq(macCipher, crypto_secretbox_MACBYTES + 1, Len(macCipher)),
                           nonce, key))

\* encrypt: the tag and the cipher text, then the nonce
encrypt(encryptionKey, clearMessage, nonce) ==
  crypto_secretbox_easy(clearMessage, nonce, encryptionKey) \o nonce

\* the try and catch of decrypt: any throw of sodium becomes one error
openedOrFailed(opened) ==
  IF opened.ok THEN opened ELSE Err("Authentication/decryption failed.")

\* a faulty decrypt that takes the nonce from the start of the message
decryptNonceFirst(encryptionKey, message) ==
  openedOrFailed(crypto_secretbox_open_easy(
    SubSeq(message, crypto_box_NONCEBYTES + 1, Len(message)),
    SubSeq(message, 1, crypto_box_NONCEBYTES), encryptionKey))

\* decrypt of a cipher message given as bytes
decryptCipherMessage(encryptionKey, message) ==
  IF Len(message) < crypto_box_NONCEBYTES + crypto_secretbox_MACBYTES
    THEN Err("The cipher message must be at least 40 bytes length.")
    ELSE openedOrFailed(crypto_secretbox_open_easy(
           SubSeq(message, 1, Len(message) - crypto_box_NONCEBYTES),
           SubSeq(message, Len(message) - crypto_box_NONCEBYTES + 1, Len(message)),
           encryptionKey))

\* createDHKeyPairBinary with the private key randombytes_buf gave
createDHKeyPairBinary(privateKey) ==
  [defined |-> TRUE,
   clientPublicKey |-> crypto_scalarmult_base(privateKey),
   clientPrivateKey |-> privateKey]

\* a faulty memo that makes a new pair in every call
memoNewPair(pair, privateKey) == createDHKeyPairBinary(privateKey)

\* the memo of createClientPublicKey: a pair is made only when there is none
memoizedPair(pair, privateKey) ==
  IF pair.defined THEN pair ELSE createDHKeyPairBinary(privateKey)

\* the keys a caller hands over as hex strings: the length of the string,
\* whether it is hexadecimal, and the key it stands for
KeyStrings ==
  {[length |-> 64, hex |-> TRUE, key |-> k] : k \in 1..2 \cup {11, 12}}
    \cup {[length |-> 63, hex |-> TRUE, key |-> 11], [length |-> 64, hex |-> FALSE, key |-> 11]}

\* the session keys and the clear messages of encrypt
KeySamples == 1..2
ClearMessageSamples == {<<>>, <<1>>, <<3, 2>>}

cryptoFrame == <<shareInput, shareResult, flatInput, flatResult, codecCall, codecResult,
                 routeVars, restVars, busVars, connVars, sendVars>>

CryptoReturns(fn, arg, res) ==
  cryptoHistory' = [fn |-> fn, arg |-> arg, res |-> res, before |-> dhKeyPair]

\* createClientPublicKey()
CreateClientPublicKey ==
  \E privateKey \in PrivateKeys :
    /\ dhKeyPair' = memoizedPair(dhKeyPair, privateKey)
    /\ CryptoReturns("createClientPublicKey", <<>>,
                     Ok(memoizedPair(dhKeyPair, privateKey).clientPublicKey))
    /\ UNCHANGED <<cipherMessage, cryptoFrame>>

\* createDHKeyPair(): a new pair is returned and not kept
CreateDHKeyPair ==
  \E privateKey \in PrivateKeys :
    /\ CryptoReturns("createDHKeyPair", <<>>, Ok(createDHKeyPairBinary(privateKey)))
    /\ UNCHANGED <<dhKeyPair, cipherMessage, cryptoFrame>>

\* setDHKeyPair(clientPublicKeyHexString, clientPrivateKeyHexString)
SetDHKeyPair(public, private) ==
  /\ IF public.length # 64
       THEN /\ CryptoReturns("setDHKeyPair", <<public, private>>,
                             Err("Client public key must be a string of 64 hex characters"))
            /\ UNCHANGED dhKeyPair
     ELSE IF private.length # 64
       THEN /\ CryptoReturns("setDHKeyPair", <<public, private>>,
                             Err("Client private key must be a string of 64 hex characters"))
            /\ UNCHANGED dhKeyPair
     ELSE IF ~public.hex \/ ~private.hex
       THEN /\ CryptoReturns("setDHKeyPair", <<public, private>>, Err("invalid input"))
            /\ UNCHANGED dhKeyPair
     ELSE /\ CryptoReturns("setDHKeyPair", <<public, private>>, Ok(<<>>))
          /\ dhKeyPair' = [defined |-> TRUE, clientPublicKey |-> public.key,
                           clientPrivateKey |-> private.key]
  /\ UNCHANGED <<cipherMessage, cryptoFrame>>

\* createEncryptionKey(serverPublicKeyHexString)
CreateEncryptionKey(server) ==
  /\ IF server.length # 64
       THEN /\ CryptoReturns("createEncryptionKey", server,
                             Err("Server public key must be a string of 64 hex characters"))
            /\ UNCHANGED dhKeyPair
     ELSE IF ~server.hex
       THEN /\ CryptoReturns("createEncryptionKey", server,
                             Err("Unable to generate encryption key from Spdz public key"))
            /\ UNCHANGED dhKeyPair
     ELSE \E privateKey \in PrivateKeys :
            /\ dhKeyPair' = memoizedPair(dhKeyPair, privateKey)
            /\ CryptoReturns("createEncryptionKey", server,
                 Ok(crypto_generichash(
                      crypto_scalarmult(memoizedPair(dhKeyPair, privateKey).clientPrivateKey,
                                        server.key),
                      memoizedPair(dhKeyPair, privateKey).clientPublicKey,
                      server.key)))
  /\ UNCHANGED <<cipherMessage, cryptoFrame>>

\* encrypt(encryptionKey, clearMessage)
Encrypt(encryptionKey, clearMessage) ==
  \E nonce \in Nonces :
    /\ cipherMessage' = [sealed |-> TRUE, key |-> encryptionKey, clear |-> clearMessage,
                         bytes |-> encrypt(encryptionKey, clearMessage, nonce)]
    /\ CryptoReturns("encrypt", <<encryptionKey, clearMessage>>,
                     Ok(encrypt(encryptionKey, clearMessage, nonce)))
    /\ UNCHANGED <<dhKeyPair, cryptoFrame>>

\* decrypt(encryptionKey, cipherMessage) of the message encrypt returned, whole
\* or cut short
Decrypt(encryptionKey, cut) ==
  /\ cipherMessage.sealed
  /\ CryptoReturns("decrypt", <<encryptionKey, cut>>,
       decryptCipherMessage(encryptionKey,
                            SubSeq(cipherMessage.bytes, 1, Len(cipherMessage.bytes) - cut)))
  /\ UNCHANGED <<dhKeyPair, cipherMessage, cryptoFrame>>

InitCrypto == PureIdle /\ ConnIdle /\ SendIdle

NextCrypto ==
  \/ CreateClientPublicKey
  \/ CreateDHKeyPair
  \/ \E public, private \in KeyStrings : SetDHKeyPair(public, private)
  \/ \E server \in KeyStrings : CreateEncryptionKey(server)
  \/ \E k \in KeySamples : \E m \in ClearMessageSamples : Encrypt(k, m)
  \/ \E k \in KeySamples : \E cut \in 0..3 : Decrypt(k, cut)

SpecCrypto == InitCrypto /\ [][NextCrypto]_vars

\* ------------------------------------------- rest_api/SpdzApiAggregate.js

ProxyStatusCodes == [Disconnected |-> 1, Connected |-> 2, Failure |-> 3]

\* ClientIds.js
resetClientIds == [u \in Urls |-> NoClientId]
storeClientId(ids, url, generatedClientId) == [ids EXCEPT ![url] = generatedClientId]
clientIdExists(ids, url) == ids[url] # NoClientId
removeClientId(ids, url) == [ids EXCEPT ![url] = NoClientId]

\* a promise of the list given to Promise.all
Pending == [state |-> "pending", value |-> <<>>, outcome |-> Err("")]
Fulfilled(value, outcome) == [state |-> "fulfilled", value |-> value, outcome |-> outcome]
Rejected(error, outcome) == [state |-> "rejected", value |-> error, outcome |-> outcome]

\* the promises that are rejected, and the one that was rejected first when
\* the list is made: the first of the list
RejectedEntries(entries) == {i \in DOMAIN entries : entries[i].state = "rejected"}
FirstRejected(entries) ==
  CHOOSE i \in RejectedEntries(entries) : \A j \in RejectedEntries(entries) : i <= j

\* a faulty Promise.all that waits for every promise and resolves to all
\* their values
promiseAllSettled(call, entries, i) ==
  IF call.settled # "pending" THEN [call EXCEPT !.entries = entries]
  ELSE IF \A j \in DOMAIN entries : entries[j].state # "pending"
    THEN [call EXCEPT !.entries = entries, !.settled = "resolved",
                      !.value = [j \in DOMAIN entries |-> entries[j].value]]
  ELSE [call EXCEPT !.entries = entries]

\* Promise.all once promise i of the list has settled: it rejects with the
\* first rejection and resolves to the values when every promise is fulfilled
promiseAll(call, entries, i) ==
  IF call.settled # "pending" THEN [call EXCEPT !.entries = entries]
  ELSE IF entries[i].state = "rejected"
    THEN [call EXCEPT !.entries = entries, !.settled = "rejected",
                      !.value = entries[i].value]
  ELSE IF \A j \in DOMAIN entries : entries[j].state = "fulfilled"
    THEN [call EXCEPT !.entries = entries, !.settled = "resolved",
                      !.value = [j \in DOMAIN entries |-> entries[j].value]]
  ELSE [call EXCEPT !.entries = entries]

\* Promise.all of the list as the request made it
promiseAllOfList(call, entries) ==
  IF RejectedEntries(entries) # {}
    THEN promiseAll(call, entries, FirstRejected(entries))
  ELSE IF entries = <<>>
    THEN [call EXCEPT !.entries = entries, !.settled = "resolved", !.value = <<>>]
  ELSE promiseAll(call, entries, 1)

\* verifyRequiredKeys(spdzProxyList, 'url')
verifyRequiredKeys(list) == Len(list.urls) > 0 /\ list.hasUrl

RequiredKeysError == "Each spdzProxyList entry must contain keys: url."
NotConnectedError(url) == <<"Not connected to SPDZ for proxy", url>>

\* a faulty request that never clears the client ids
clientIdsOnCallKept(kind, ids) == ids
\* a faulty request that clears the client ids whatever it is
clientIdsOnCallCleared(kind, ids) == resetClientIds

\* the client ids once a request is made: connectToSPDZ alone calls resetClientIds
clientIdsOnCall(kind, ids) == IF kind = "connect" THEN resetClientIds ELSE ids

\* a faulty answer that leaves the client id when the disconnect failed
clientIdsOnAnswerOfSuccess(kind, ids, url, outcome) ==
  IF kind = "connect" /\ outcome.ok THEN storeClientId(ids, url, outcome.val)
  ELSE IF kind = "disconnect" /\ outcome.ok THEN removeClientId(ids, url)
  ELSE ids

\* the client ids once a proxy has answered: connectToSPDZ stores the id of a
\* connection made, disconnectFromSPDZ removes the id in then and in catch
clientIdsOnAnswer(kind, ids, url, outcome) ==
  IF kind = "connect" /\ outcome.ok THEN storeClientId(ids, url, outcome.val)
  ELSE IF kind = "disconnect" THEN removeClientId(ids, url)
  ELSE ids

\* the key of the proxy at a url, and what a proxy answers to consume-data: a
\* message under its key, a message under another key, and clear bytes
encryptionKeyOf(url) == url
FirstNonce == [i \in 1..crypto_box_NONCEBYTES |-> 0]
PayloadSamples(url) ==
  {encrypt(encryptionKeyOf(url), <<1>>, FirstNonce),
   encrypt(encryptionKeyOf(url) + 1, <<1>>, FirstNonce),
   <<1, 2>>}

\* the promise a request makes of the answer of a proxy
answered(kind, index, url, encrypted, outcome) ==
  IF kind = "connect"
    THEN IF outcome.ok
           THEN Fulfilled([id |-> index, status |-> ProxyStatusCodes.Connected,
                           clientId |-> outcome.val], outcome)
           ELSE Fulfilled([id |-> index, status |-> ProxyStatusCodes.Failure], outcome)
  ELSE IF kind = "check"
    THEN Fulfilled([id |-> index,
                    status |-> IF outcome.ok THEN ProxyStatusCodes.Connected
                               ELSE ProxyStatusCodes.Disconnected], outcome)
  ELSE IF kind = "disconnect"
    THEN Fulfilled([id |-> index, status |-> ProxyStatusCodes.Disconnected], outcome)
  ELSE IF ~outcome.ok
    THEN Rejected(outcome.err, outcome)
  ELSE IF kind = "consume" /\ encrypted
    THEN IF decryptCipherMessage(encryptionKeyOf(url), outcome.val).ok
           THEN Fulfilled(decryptCipherMessage(encryptionKeyOf(url), outcome.val).val, outcome)
           ELSE Rejected(decryptCipherMessage(encryptionKeyOf(url), outcome.val).err, outcome)
  ELSE Fulfilled(outcome.val, outcome)

\* the promise a request makes for a proxy before any answer
requested(kind, index, url, ids) ==
  IF kind = "connect" THEN Pending
  ELSE IF clientIdExists(ids, url) THEN Pending
  ELSE IF kind = "check"
    THEN Fulfilled([id |-> index, status |-> ProxyStatusCodes.Failure], Err(""))
  ELSE IF kind = "disconnect"
    THEN Fulfilled([id |-> index, status |-> ProxyStatusCodes.Disconnected], Err(""))
  ELSE Rejected(NotConnectedError(url), Err(""))

restFrame == <<shareInput, shareResult, flatInput, flatResult, codecCall, codecResult,
               routeVars, cryptoVars, busVars, connVars, sendVars>>

\* history: the urls of a disconnectFromSPDZ that has resolved, until a
\* client id is stored for them again
RecordRest(hist, call, stored) ==
  [hist EXCEPT
     !.disconnected =
        (@ \ stored)
          \cup (IF call.kind = "disconnect" /\ call.settled = "resolved"
                  THEN {call.list[i] : i \in DOMAIN call.list} ELSE {})]

\* a request of the caller, who makes one when the one before has settled
Request(kind, list, encrypted) ==
  /\ restCall.settled # "pending"
  /\ restHistory.calls < MaxRestCalls
  /\ clientIds' = clientIdsOnCall(kind, clientIds)
  /\ restCall' =
       IF kind \in {"disconnect", "consume", "send"} /\ ~verifyRequiredKeys(list)
         THEN [kind |-> kind, list |-> list.urls, hasUrl |-> list.hasUrl,
               encrypted |-> encrypted, entries |-> <<>>, settled |-> "rejected",
               value |-> RequiredKeysError, idsAtCall |-> clientIds,
               disconnectedAtCall |-> restHistory.disconnected]
         ELSE promiseAllOfList(
                [kind |-> kind, list |-> list.urls, hasUrl |-> list.hasUrl,
                 encrypted |-> encrypted, entries |-> <<>>, settled |-> "pending",
                 value |-> <<>>, idsAtCall |-> clientIds,
                 disconnectedAtCall |-> restHistory.disconnected],
                [i \in DOMAIN list.urls |->
                   requested(kind, i - 1, list.urls[i], clientIdsOnCall(kind, clientIds))])
  /\ restHistory' = RecordRest([restHistory EXCEPT !.calls = @ + 1], restCall', {})
  /\ UNCHANGED restFrame

UrlLists ==
  {[urls |-> l, hasUrl |-> TRUE] : l \in UNION {[1..n -> Urls] : n \in 0..2}}
ProxyLists == UrlLists \cup {[urls |-> <<1>>, hasUrl |-> FALSE]}

ConnectToSPDZ(spdzProxyUrlList) == Request("connect", spdzProxyUrlList, FALSE)
CheckProxies(spdzProxyUrlList) == Request("check", spdzProxyUrlList, FALSE)
DisconnectFromSPDZ(spdzProxyList) == Request("disconnect", spdzProxyList, FALSE)
ConsumeDataFromProxies(spdzProxyList, encrypted) ==
  Request("consume", spdzProxyList, encrypted)
SendInputsToProxies(spdzProxyList) == Request("send", spdzProxyList, FALSE)

\* the proxy of promise i answers the request in flight
Answer(kind, i, outcome) ==
  /\ restCall.kind = kind
  /\ i \in DOMAIN restCall.entries
  /\ restCall.entries[i].state = "pending"
  /\ clientIds' = clientIdsOnAnswer(kind, clientIds, restCall.list[i], outcome)
  /\ restCall' = promiseAll(restCall,
                   [restCall.entries EXCEPT
                      ![i] = answered(kind, i - 1, restCall.list[i], restCall.encrypted,
                                      outcome)],
                   i)
  /\ restHistory' = RecordRest(restHistory, restCall',
                                IF kind = "connect" /\ outcome.ok
                                  THEN {restCall.list[i]} ELSE {})
  /\ UNCHANGED restFrame

GeneratedIds == 1..2

ConnectProxyToEngine(i) ==
  \E outcome \in {Ok(id) : id \in GeneratedIds}
                   \cup {Err("Unable to make SPDZ proxy engine connection.")} :
    Answer("connect", i, outcome)

CheckEngineConnection(i) ==
  \E outcome \in {Ok(<<>>), Err("SPDZ proxy not connected to SPDZ engine.")} :
    Answer("check", i, outcome)

DisconnectProxyFromEngine(i) ==
  \E outcome \in {Ok(<<>>), Err("Unable to disconnect from SPDZ proxy engine.")} :
    Answer("disconnect", i, outcome)

ConsumeDataFromProxy(i) ==
  /\ i \in DOMAIN restCall.list
  /\ \E outcome \in {Ok(b) : b \in PayloadSamples(restCall.list[i])}
                     \cup {Err("No data is available to consume from the SPDZ proxy.")} :
       Answer("consume", i, outcome)

SendDataToProxy(i) ==
  \E outcome \in {Ok(<<>>), Err("Unable to send data to SPDZ proxy.")} :
    Answer("send", i, outcome)

InitRest == PureIdle /\ ConnIdle /\ SendIdle

NextRest ==
  \/ \E l \in UrlLists : ConnectToSPDZ(l)
  \/ \E l \in UrlLists : CheckProxies(l)
  \/ \E l \in ProxyLists : DisconnectFromSPDZ(l)
  \/ \E l \in ProxyLists : \E encrypted \in BOOLEAN : ConsumeDataFromProxies(l, encrypted)
  \/ \E l \in ProxyLists : SendInputsToProxies(l)
  \/ \E i \in 1..2 : ConnectProxyToEngine(i)
  \/ \E i \in 1..2 : CheckEngineConnection(i)
  \/ \E i \in 1..2 : DisconnectProxyFromEngine(i)
  \/ \E i \in 1..2 : ConsumeDataFromProxy(i)
  \/ \E i \in 1..2 : SendDataToProxy(i)

SpecRest == InitRest /\ [][NextRest]_vars

\* --------------------- socketApi.js: webSocketBus and userInputBus of the module

\* webSocketBus.onValue of connectSetup: the handler of every socket made by
\* any call of connectToSPDZProxy is subscribed, and each emits the command
webSocketBusOnValue(sockets, calls, cmd) ==
  [c \in 1..MaxProxyCalls |->
     IF c <= calls THEN [p \in Parties |-> Append(sockets[c][p], cmd)]
     ELSE sockets[c]]

\* the command sendValueStream.onValue pushes for a paired input batch
sendDataOfBatch(batch, calls) ==
  [eventType |-> "sendData", dataType |-> "modp", batch |-> batch, latest |-> calls]

\* userInputBus.push(batch): the zip of every call made so far takes the
\* batch, in the order the calls subscribed; a zip that holds shares pairs it
\* and pushes the sendData command
RECURSIVE userInputBusPush(_, _, _, _)
userInputBusPush(c, calls, batch, st) ==
  IF c > calls THEN st
  ELSE userInputBusPush(c + 1, calls, batch,
         IF st.queues[c].shares # <<>>
           THEN [sockets |-> webSocketBusOnValue(st.sockets, calls,
                                                 sendDataOfBatch(batch, calls)),
                 queues |-> [st.queues EXCEPT ![c].shares = Tail(@)],
                 taken |-> Append(st.taken, [call |-> c, batch |-> batch])]
           ELSE [sockets |-> st.sockets,
                 queues |-> [st.queues EXCEPT ![c].inputs = Append(@, batch)],
                 taken |-> Append(st.taken, [call |-> c, batch |-> batch])])

busFrame == <<shareInput, shareResult, flatInput, flatResult, codecCall, codecResult,
              routeVars, cryptoVars, restVars, connectionStream, proxyLatest,
              spdzLatest, waits, socketOut, connHistory, sendVars>>

\* connectToSPDZProxy: connectSetup subscribes the sockets of this call to
\* webSocketBus and setupSendInputShareStream subscribes one more zip to
\* userInputBus; nothing of an earlier call is unsubscribed and the flags stay
ConnectToSPDZProxy ==
  /\ proxyCalls < MaxProxyCalls
  /\ proxyCalls' = proxyCalls + 1
  /\ UNCHANGED <<busSockets, busQueues, busHistory, connectedToProxies,
                 connectedToSpdz, busFrame>>

\* connectionStream.onValue of a call: the flags of the module take the
\* status of the aggregate response, whichever call it belongs to
ConnectionStreamOnValue(c, eventType, status) ==
  /\ c \in 1..proxyCalls
  /\ connectedToProxies' = IF eventType = PROXY_CONNECT THEN status ELSE connectedToProxies
  /\ connectedToSpdz' = IF eventType = SPDZ_CONNECT THEN status ELSE connectedToSpdz
  /\ UNCHANGED <<busVars, busFrame>>

\* a command of the caller: pushed on webSocketBus when the flag allows it,
\* a throw otherwise
BusCommand(allowed, cmd) ==
  /\ busHistory.requests < MaxBusRequests
  /\ busHistory' = [busHistory EXCEPT !.requests = @ + 1]
  /\ busSockets' = IF allowed THEN webSocketBusOnValue(busSockets, proxyCalls, cmd)
                   ELSE busSockets
  /\ UNCHANGED <<proxyCalls, busQueues, connectedToProxies, connectedToSpdz, busFrame>>

ConnectToSpdz ==
  BusCommand(connectedToProxies,
             [eventType |-> "connectToSpdz", dataType |-> "", batch |-> 0,
              latest |-> proxyCalls])

DisconnectFromSpdz ==
  BusCommand(connectedToSpdz,
             [eventType |-> "disconnectFromSpdz", dataType |-> "", batch |-> 0,
              latest |-> proxyCalls])

SendClearInputs ==
  BusCommand(connectedToProxies /\ connectedToSpdz,
             [eventType |-> "sendData", dataType |-> "int32", batch |-> 0,
              latest |-> proxyCalls])

\* sendInputsWithShares: userInputBus.push when connected, a throw otherwise
SendInputsWithShares ==
  /\ busHistory.requests < MaxBusRequests
  /\ IF connectedToProxies /\ connectedToSpdz
       THEN LET st == userInputBusPush(1, proxyCalls, busHistory.batches + 1,
                        [sockets |-> busSockets, queues |-> busQueues,
                         taken |-> busHistory.taken])
            IN /\ busSockets' = st.sockets
               /\ busQueues' = st.queues
               /\ busHistory' = [busHistory EXCEPT !.requests = @ + 1,
                                                   !.batches = @ + 1,
                                                   !.taken = st.taken]
       ELSE /\ busHistory' = [busHistory EXCEPT !.requests = @ + 1]
            /\ UNCHANGED <<busSockets, busQueues>>
  /\ UNCHANGED <<proxyCalls, connectedToProxies, connectedToSpdz, busFrame>>

\* extractedSharesStream of call c emits a share batch: the zip of that call
\* pairs it with its oldest input batch, and the sendData command is pushed
ExtractedShares(c) ==
  /\ c \in 1..proxyCalls
  /\ busHistory.shareBatches[c] < MaxShareMsgs
  /\ busHistory' = [busHistory EXCEPT !.shareBatches[c] = @ + 1]
  /\ IF busQueues[c].inputs # <<>>
       THEN /\ busQueues' = [busQueues EXCEPT ![c].inputs = Tail(@)]
            /\ busSockets' = webSocketBusOnValue(busSockets, proxyCalls,
                               sendDataOfBatch(Head(busQueues[c].inputs), proxyCalls))
       ELSE /\ busQueues' = [busQueues EXCEPT ![c].shares =
                               Append(@, busHistory.shareBatches[c] + 1)]
            /\ busSockets' = busSockets
  /\ UNCHANGED <<proxyCalls, connectedToProxies, connectedToSpdz, busFrame>>

InitBus == PureIdle /\ ConnIdle /\ SendIdle

NextBus ==
  \/ ConnectToSPDZProxy
  \/ \E c \in 1..MaxProxyCalls : \E eventType \in {PROXY_CONNECT, SPDZ_CONNECT} :
       \E status \in BOOLEAN : ConnectionStreamOnValue(c, eventType, status)
  \/ ConnectToSpdz
  \/ DisconnectFromSpdz
  \/ SendClearInputs
  \/ SendInputsWithShares
  \/ \E c \in 1..MaxProxyCalls : ExtractedShares(c)

SpecBus == InitBus /\ [][NextBus]_vars

\* ------------------------------------------------- the connection streams

\* a faulty flag update that never takes a flag back
ConnectionResponseKeepsFlags(response) ==
  /\ connectedToProxies' =
       (connectedToProxies \/ (response.eventType = PROXY_CONNECT /\ response.status))
  /\ connectedToSpdz' =
       (connectedToSpdz \/ (response.eventType = SPDZ_CONNECT /\ response.status))
  /\ waits' = DeliverToWaits(waits, response)

\* connectionStream emits a flattened unit: the flags are set by its first
\* subscriber, then the handler of every subscribed wait runs
ConnectionResponse(response) ==
  /\ connectedToProxies' =
       IF response.eventType = PROXY_CONNECT THEN response.status ELSE connectedToProxies
  /\ connectedToSpdz' =
       IF response.eventType = SPDZ_CONNECT THEN response.status ELSE connectedToSpdz
  /\ waits' = DeliverToWaits(waits, response)

\* history: an event reported by proxy p, and the aggregate event it led to
RecordReport(h, p, type) ==
  [h EXCEPT !.proxyReports[p] = IF type = PROXY_CONNECT THEN Min(@ + 1, 2) ELSE @]

RecordResponse(h, response) ==
  [h EXCEPT
     !.proxyAggCount = IF response.eventType = PROXY_CONNECT THEN Min(@ + 1, 2) ELSE @,
     !.lastProxyStatus = IF response.eventType = PROXY_CONNECT THEN response.status ELSE @,
     !.lastSpdzStatus = IF response.eventType = SPDZ_CONNECT THEN response.status ELSE @,
     !.lastAgg = [eventType |-> response.eventType, status |-> response.status,
                  tick |-> ~@.tick]]

\* mergeAll(...).flatMap(flattenResponseMessage) for the units of a combineAsArray
ConnectionStreamEmits(p, type, units) ==
  IF units = <<>>
    THEN /\ UNCHANGED <<connectedToProxies, connectedToSpdz, waits>>
         /\ connHistory' = RecordReport(connHistory, p, type)
    ELSE /\ ConnectionResponse(flattenResponseMessage(units[1]))
         /\ connHistory' = RecordResponse(RecordReport(connHistory, p, type),
                                          flattenResponseMessage(units[1]))

\* proxyConnectionStream of proxy p sinks a value
ProxyConnectionEvent(p, status) ==
  /\ proxyLatest' = [proxyLatest EXCEPT ![p] = IF status THEN "up" ELSE "down"]
  /\ ConnectionStreamEmits(p, PROXY_CONNECT, combineAsArray(PROXY_CONNECT, proxyLatest'))
  /\ UNCHANGED <<connectionStream, spdzLatest, socketOut, pureVars, sendVars>>

\* spdzConnectionStream of proxy p sinks a value
SpdzConnectionEvent(p, status, out) ==
  /\ spdzLatest' = [spdzLatest EXCEPT ![p] = IF status THEN "up" ELSE "down"]
  /\ socketOut' = out
  /\ ConnectionStreamEmits(p, SPDZ_CONNECT, combineAsArray(SPDZ_CONNECT, spdzLatest'))
  /\ UNCHANGED <<connectionStream, proxyLatest, pureVars, sendVars>>

\* socket.on('connect')
SocketConnect(p) ==
  /\ connectionStream
  /\ proxyLatest[p] # "up"
  /\ ProxyConnectionEvent(p, TRUE)

\* socket.on('connect_error')
SocketConnectError(p) ==
  /\ connectionStream
  /\ proxyLatest[p] # "up"
  /\ ProxyConnectionEvent(p, FALSE)

\* socket.on('connect_timeout')
SocketConnectTimeout(p) ==
  /\ connectionStream
  /\ proxyLatest[p] # "up"
  /\ ProxyConnectionEvent(p, FALSE)

\* socket.on('disconnect')
SocketDisconnect(p) ==
  /\ proxyLatest[p] = "up"
  /\ ProxyConnectionEvent(p, FALSE)

\* the command a proxy answers next
NextCommand(p) == IF socketOut[p] = <<>> THEN "none" ELSE Head(socketOut[p]).eventType

Answered(p) == [socketOut EXCEPT ![p] = Tail(@)]

\* socket.on('connectToSpdz_result')
ConnectToSpdzResult(p, status) ==
  /\ proxyLatest[p] = "up"
  /\ NextCommand(p) = "connectToSpdz"
  /\ SpdzConnectionEvent(p, status = 0, Answered(p))

\* socket.on('disconnectFromSpdz_result')
DisconnectFromSpdzResult(p) ==
  /\ proxyLatest[p] = "up"
  /\ NextCommand(p) = "disconnectFromSpdz"
  /\ SpdzConnectionEvent(p, FALSE, Answered(p))

\* socket.on('spdz_socketDisconnected')
SpdzSocketDisconnected(p) ==
  /\ proxyLatest[p] = "up"
  /\ spdzLatest[p] = "up"
  /\ SpdzConnectionEvent(p, FALSE, socketOut)

\* the setTimeout of streamWithTimeout fires: a timeout event for the handler
\* while it is subscribed
Timeout(k) ==
  /\ waits[k].timer = "armed"
  /\ waits' = [waits EXCEPT ![k] =
                 IF @.subscribed
                   THEN WaitHandler(k, [@ EXCEPT !.timer = "fired"], [eventType |-> TIMEOUT])
                   ELSE [@ EXCEPT !.timer = "fired"]]
  /\ UNCHANGED <<connectionStream, proxyLatest, spdzLatest, connectedToProxies,
                 connectedToSpdz, socketOut, connHistory, pureVars, sendVars>>

\* connectToSpdzProxyPromise: the sockets are made and the wait subscribed
ConnectToSpdzProxyPromise ==
  /\ ~connectionStream
  /\ waits["proxy"].state = "idle"
  /\ connectionStream' = TRUE
  /\ waits' = [waits EXCEPT !["proxy"] = BoundedWait]
  /\ UNCHANGED <<proxyLatest, spdzLatest, connectedToProxies, connectedToSpdz,
                 socketOut, connHistory, pureVars, sendVars>>

\* connectToSpdzPartyPromise: subscribe, then connectToSpdz, which throws
\* unless connected to all proxies
ConnectToSpdzPartyPromise ==
  /\ waits["connect"].state = "idle"
  /\ IF ~connectionStream
       THEN /\ waits' = [waits EXCEPT !["connect"] =
                 rejectThrown([IdleWait EXCEPT !.state = "pending"],
                   "Not connected to SPDZ Proxies, unable to run request.")]
            /\ socketOut' = socketOut
     ELSE IF connectedToProxies
       THEN /\ waits' = [waits EXCEPT !["connect"] = BoundedWait]
            /\ socketOut' = webSocketBusPush(socketOut, [eventType |-> "connectToSpdz"])
     ELSE /\ waits' = [waits EXCEPT !["connect"] =
                 rejectThrown(BoundedWait,
                   "Cannot run SPDZ connection if not connected to all SPDZ Proxies.")]
          /\ socketOut' = socketOut
  /\ UNCHANGED <<connectionStream, proxyLatest, spdzLatest, connectedToProxies,
                 connectedToSpdz, connHistory, pureVars, sendVars>>

\* disconnectFromSpdzPartyPromise: subscribe, then disconnectFromSpdz, which
\* throws unless connected to all engines
DisconnectFromSpdzPartyPromise ==
  /\ waits["disconnect"].state = "idle"
  /\ IF ~connectionStream
       THEN /\ waits' = [waits EXCEPT !["disconnect"] =
                 rejectThrown([IdleWait EXCEPT !.state = "pending"],
                   "Not connected to SPDZ Proxies, unable to run request.")]
            /\ socketOut' = socketOut
     ELSE IF connectedToSpdz
       THEN /\ waits' = [waits EXCEPT !["disconnect"] = BoundedWait]
            /\ socketOut' = webSocketBusPush(socketOut, [eventType |-> "disconnectFromSpdz"])
     ELSE /\ waits' = [waits EXCEPT !["disconnect"] =
                 rejectThrown(BoundedWait, "Not connected to all SPDZ Engines.")]
          /\ socketOut' = socketOut
  /\ UNCHANGED <<connectionStream, proxyLatest, spdzLatest, connectedToProxies,
                 connectedToSpdz, connHistory, pureVars, sendVars>>

InitConn == PureIdle /\ ConnIdle /\ SendIdle

NextConn ==
  \/ ConnectToSpdzProxyPromise
  \/ ConnectToSpdzPartyPromise
  \/ DisconnectFromSpdzPartyPromise
  \/ \E p \in Parties : SocketConnect(p)
  \/ \E p \in Parties : SocketConnectError(p)
  \/ \E p \in Parties : SocketConnectTimeout(p)
  \/ \E p \in Parties : SocketDisconnect(p)
  \/ \E p \in Parties : \E status \in {0, 1} : ConnectToSpdzResult(p, status)
  \/ \E p \in Parties : DisconnectFromSpdzResult(p)
  \/ \E p \in Parties : SpdzSocketDisconnected(p)
  \/ \E k \in WaitKinds : Timeout(k)

SpecConn == InitConn /\ [][NextConn]_vars

\* ------------------------------------------------------- the send streams

\* the input lists a caller sends: one value, two values, and one out of range
InputSamples == {<<4>>, <<-2, 4>>, <<GFP_NEGATIVE_BOUNDARY, 1>>}

\* the share messages a proxy sends: two messages of two triples that pass the
\* check only when summed, and a message of one zero triple
ShareMessageSamples ==
  { TripleBytes(1, 2, 0) \o TripleBytes(2, 2, ValidC(3, 4)),
    TripleBytes(2, 2, ValidC(3, 4)) \o TripleBytes(1, 2, 0),
    TripleBytes(0, 0, 0) }

\* the list and type a caller sends in the clear
ClearSamples == {<<4>>}
ClearTypes == {"int32"}

\* a new subscriber of clientResponseStream: when it is the only one the binder
\* of otherResponseStream runs again and puts one more listener on each socket
BindsAfterSubscribe == IF ResponsesSubscribed(sendWaits) THEN respBinds ELSE respBinds + 1

\* the handlers subscribed to clientResponseStream
Subscribers(ws) == Cardinality({i \in 1..Len(ws) : ws[i].subscribed})

\* history: pair k of an input batch and a share batch, what was emitted for
\* it, and how many handlers heard its error
RecordPair(hist, po, heard) ==
  [hist EXCEPT
     !.pairLog = Append(@, [inputId |-> po.input.id, shareId |-> po.share.id,
                            input |-> po.input.vals, shares |-> po.share.vals,
                            outcome |-> po.out.kind,
                            errMsg |-> IF po.out.kind = "error" THEN po.out.val ELSE <<>>,
                            heard |-> IF po.out.kind = "error" THEN heard ELSE 0]),
     !.socketLog = IF po.out.kind = "value"
                     THEN webSocketBusPush(@, [pair |-> Len(hist.pairLog) + 1,
                                               dataType |-> "modp",
                                               dataArray |-> po.out.val])
                     ELSE @]

\* what follows an arrival at the zip of sendValueStream: ws are the promises
\* and hist the history at the arrival, thrower the promise whose request is
\* running (0 when the arrival is a share message)
SendValueStreamStep(po, ws, hist, thrower) ==
  /\ userInputBuf' = po.inBuf
  /\ extractedBuf' = po.exBuf
  /\ IF ~po.fired
       THEN /\ socketOut' = socketOut
            /\ sendWaits' = ws
            /\ sendHistory' = hist
       ELSE /\ socketOut' =
                 IF po.out.kind = "value"
                   THEN webSocketBusPush(socketOut,
                          [eventType |-> "sendData", dataType |-> "modp",
                           dataArray |-> po.out.val])
                   ELSE socketOut
            /\ sendWaits' =
                 IF po.out.kind = "error"
                   THEN DeliverToSendWaits(ws, flattenResponseMessage(sendValueStreamErrors))
                 ELSE IF po.out.kind = "throw" /\ thrower # 0
                   THEN [ws EXCEPT ![thrower] =
                           rejectThrown(@, "Got an integer which exceeds the field size -prime/2 to prime/2.")]
                 ELSE ws
            /\ sendHistory' = RecordPair(hist, po, Subscribers(ws))

\* sendSecretInputsPromise: subscribe, then sendInputsWithShares, which throws
\* unless connected to all proxies and engines
SendSecretInputsPromise(inputList) ==
  /\ connectionStream
  /\ Len(sendWaits) < MaxSends
  /\ respBinds' = BindsAfterSubscribe
  /\ IF connectedToProxies /\ connectedToSpdz
       THEN SendValueStreamStep(
              PairOutcome(Append(userInputBuf,
                            [id |-> sendHistory.inputsAccepted + 1,
                             vals |-> convertUserInput(inputList)]),
                          extractedBuf),
              Append(sendWaits, UnboundedWait),
              [sendHistory EXCEPT !.inputsAccepted = @ + 1],
              Len(sendWaits) + 1)
       ELSE /\ sendWaits' = Append(sendWaits,
                 rejectThrown(UnboundedWait, "Not connected to all SPDZ Proxies/Engines."))
            /\ UNCHANGED <<userInputBuf, extractedBuf, socketOut, sendHistory>>
  /\ UNCHANGED <<connectionStream, proxyLatest, spdzLatest, connectedToProxies,
                 connectedToSpdz, waits, connHistory, sharesBuf, respBuf, pureVars>>

\* sendClearInputsPromise: subscribe, then sendClearInputs
SendClearInputsPromise(inputList, spdzType) ==
  /\ connectionStream
  /\ Len(sendWaits) < MaxSends
  /\ respBinds' = BindsAfterSubscribe
  /\ IF connectedToProxies /\ connectedToSpdz
       THEN /\ sendWaits' = Append(sendWaits, UnboundedWait)
            /\ socketOut' = webSocketBusPush(socketOut,
                 [eventType |-> "sendData", dataType |-> spdzType,
                  dataArray |-> convertUserInput(inputList)])
            /\ sendHistory' = [sendHistory EXCEPT !.socketLog =
                 webSocketBusPush(@, [pair |-> 0, dataType |-> spdzType,
                                      dataArray |-> convertUserInput(inputList)])]
       ELSE /\ sendWaits' = Append(sendWaits,
                 rejectThrown(UnboundedWait, "Not connected to all SPDZ Proxies/Engines."))
            /\ UNCHANGED <<socketOut, sendHistory>>
  /\ UNCHANGED <<connectionStream, proxyLatest, spdzLatest, connectedToProxies,
                 connectedToSpdz, waits, connHistory, userInputBuf, extractedBuf,
                 sharesBuf, respBuf, pureVars>>

\* history: spdzErrorStream emits the error of a unit of shares; the oldest
\* input batch, if any, was waiting for the shares of that unit
RecordShareError(hist, err) ==
  [hist EXCEPT
     !.spdzErrors = Append(@, err),
     !.failedFor = IF userInputBuf # <<>> /\ err = "Triple to be used for a share failed check."
                     THEN @ \cup {Head(userInputBuf).id} ELSE @]

\* extractedSharesStream: a share batch for the zip of sendValueStream, or an
\* error that sendValueStream and spdzErrorStream pass on
ShareBatch(extracted, hist) ==
  IF ~extracted.ok
    THEN /\ sendHistory' = RecordShareError(hist, extracted.err)
         /\ sendWaits' = DeliverToSendWaits(sendWaits,
                           flattenResponseMessage(sendValueStreamErrors))
         /\ UNCHANGED <<userInputBuf, extractedBuf, socketOut>>
    ELSE SendValueStreamStep(
           PairOutcome(userInputBuf,
             Append(extractedBuf, [id |-> hist.shareBatches + 1, vals |-> extracted.val])),
           sendWaits, [hist EXCEPT !.shareBatches = @ + 1], 0)

\* combinedSharesStream emits a unit
ShareUnit(z, hist) ==
  /\ sharesBuf' = z.rest
  /\ ShareBatch(extractValidateShares([q \in Parties |-> z.unit[q].data]),
                [hist EXCEPT !.zipUnits = Append(@, [q \in Parties |-> z.unit[q].tag])])

\* a share message of proxy p reaches zipAsArray
ShareArrives(bufs, hist) ==
  IF \A q \in Parties : bufs[q] # <<>>
    THEN ShareUnit(zipAsArray(bufs), hist)
    ELSE /\ sharesBuf' = bufs
         /\ sendHistory' = hist
         /\ UNCHANGED <<userInputBuf, extractedBuf, socketOut, sendWaits>>

\* socket.on('spdz_message') with a share message of proxy p: combinedSharesStream
\* zips it, extractValidateShares makes a share batch or an error of it
ShareMessage(p, data) ==
  /\ proxyLatest[p] = "up"
  /\ spdzLatest[p] = "up"
  /\ sendHistory.fed[p] < MaxShareMsgs
  /\ ShareArrives(
       [sharesBuf EXCEPT ![p] = Append(@, [tag |-> sendHistory.fed[p] + 1, data |-> data])],
       [sendHistory EXCEPT !.fed[p] = @ + 1])
  /\ UNCHANGED <<connectionStream, proxyLatest, spdzLatest, connectedToProxies,
                 connectedToSpdz, waits, connHistory, respBuf, respBinds, pureVars>>

ResponsesSunk(r) ==
  /\ respBuf' = r.bufs
  /\ sendWaits' = r.ws

\* socket.on('sendData_result')
SendDataResult(p, status) ==
  /\ proxyLatest[p] = "up"
  /\ NextCommand(p) = "sendData"
  /\ socketOut' = Answered(p)
  /\ ResponsesSunk(SinkResponse(respBinds, respBuf, sendWaits, p, status = 0))
  /\ UNCHANGED <<connectionStream, proxyLatest, spdzLatest, connectedToProxies,
                 connectedToSpdz, waits, connHistory, userInputBuf, extractedBuf,
                 sharesBuf, respBinds, sendHistory, pureVars>>

\* the state once connectToSpdzProxyPromise and connectToSpdzPartyPromise have
\* resolved and their timers have run out
SettledWait == [IdleWait EXCEPT !.state = "resolved", !.timer = "fired", !.settles = 1]

InitSend ==
  /\ PureIdle
  /\ SendIdle
  /\ connectionStream = TRUE
  /\ proxyLatest = [p \in Parties |-> "up"]
  /\ spdzLatest = [p \in Parties |-> "up"]
  /\ connectedToProxies = TRUE
  /\ connectedToSpdz = TRUE
  /\ waits = [k \in WaitKinds |-> IF k = "disconnect" THEN IdleWait ELSE SettledWait]
  /\ socketOut = [p \in Parties |-> <<>>]
  /\ connHistory = [proxyReports |-> [p \in Parties |-> 1],
                    proxyAggCount |-> 1,
                    lastProxyStatus |-> TRUE,
                    lastSpdzStatus |-> TRUE,
                    lastAgg |-> [eventType |-> SPDZ_CONNECT, status |-> TRUE, tick |-> FALSE]]

NextSend ==
  \/ \E inputList \in InputSamples : SendSecretInputsPromise(inputList)
  \/ \E inputList \in ClearSamples : \E spdzType \in ClearTypes :
       SendClearInputsPromise(inputList, spdzType)
  \/ \E p \in Parties : \E data \in ShareMessageSamples : ShareMessage(p, data)
  \/ \E p \in Parties : \E status \in {0, 1} : SendDataResult(p, status)
  \/ DisconnectFromSpdzPartyPromise
  \/ \E p \in Parties : DisconnectFromSpdzResult(p)
  \/ \E k \in WaitKinds : Timeout(k)

SpecSend == InitSend /\ [][NextSend]_vars

\* timers run out: the only progress the library itself guarantees
SpecSendFair == SpecSend /\ WF_vars(\E k \in WaitKinds : Timeout(k))

\* ------------------------------------- the requests in every connection stage

\* the connection requests and events together with the send requests, made
\* in any stage of the connection
NextStage ==
  \/ NextConn
  \/ SendSecretInputsPromise(<<4>>)
  \/ SendClearInputsPromise(<<4>>, "int32")

SpecStage == InitConn /\ [][NextStage]_vars
\* ------------------------------------------- the messages of the SPDZ engines

\* sharesStream and outputsStream: the filters over spdzMessageStream
sharesFilter(value) == value.messageType = MESSAGE_TYPE.TRIPLE_SHARES
\* a faulty filter of outputsStream that lets every message through
outputsFilterAll(value) == value.messageType \in 0..4
outputsFilter(value) == value.messageType # MESSAGE_TYPE.TRIPLE_SHARES

\* the messages a proxy sends: shares of a zero triple and of a triple that
\* fails the check, the int32 result 2, a result of two field integers, a
\* message of type 0 with the bytes of the int32 result and a message of an
\* unknown type
RouteMessageSamples ==
  {[keyed |-> FALSE, opens |-> TRUE, bytes |-> b] :
     b \in { WireBytes(MESSAGE_TYPE.TRIPLE_SHARES, 4) \o TripleBytes(0, 0, 0),
             WireBytes(MESSAGE_TYPE.TRIPLE_SHARES, 4) \o TripleBytes(1, 2, 0),
             WireBytes(MESSAGE_TYPE.INT_32, 4) \o WireBytes(2, INT32_LENGTH_BYTES),
             WireBytes(MESSAGE_TYPE.CLEAR_MODP_INT, 4)
               \o WireBytes(toMontgomery(1), INTEGER_LENGTH_BYTES)
               \o WireBytes(toMontgomery(GFP_PRIME - 2), INTEGER_LENGTH_BYTES),
             WireBytes(MESSAGE_TYPE.NOTYPE, 4) \o WireBytes(2, INT32_LENGTH_BYTES),
             WireBytes(5, 4) \o WireBytes(1, INT32_LENGTH_BYTES) }}

\* history: spdzResultStream emits the value or the error of a unit, and
\* spdzErrorStream emits the error
spdzResult(result, hist) ==
  [hist EXCEPT !.results = Append(@, result),
               !.resultErrors = IF result.ok THEN @ ELSE Append(@, result.err)]

\* combinedOutputsStream emits a unit and convertOutput decodes it
OutputUnit(z, hist) ==
  /\ outputsBuf' = z.rest
  /\ routeHistory' = spdzResult(
       convertOutput([q \in Parties |-> [messageType |-> z.unit[q].messageType,
                                         data |-> z.unit[q].data]]),
       [hist EXCEPT !.outUnits = Append(@, z.unit)])

\* an output message of a proxy reaches zipAsArray
OutputArrives(bufs, hist) ==
  IF \A q \in Parties : bufs[q] # <<>>
    THEN OutputUnit(zipAsArray(bufs), hist)
    ELSE /\ outputsBuf' = bufs
         /\ routeHistory' = hist

\* sharesStream: an error of parseSpdzMessage passes the filter, the zip and
\* extractValidateShares; a message goes on when the filter lets it
SharesPath(p, parsed) ==
  IF ~parsed.ok
    THEN /\ sharesBuf' = sharesBuf
         /\ ShareBatch(parsed, sendHistory)
  ELSE IF sharesFilter(parsed.val)
    THEN ShareArrives(
           [sharesBuf EXCEPT ![p] = Append(@, [tag |-> sendHistory.fed[p] + 1,
                                               data |-> parsed.val.data])],
           [sendHistory EXCEPT !.fed[p] = @ + 1])
  ELSE UNCHANGED <<sharesBuf, sendHistory, userInputBuf, extractedBuf, socketOut,
                   sendWaits>>

\* outputsStream: the same for the result path
OutputsPath(p, parsed, hist) ==
  IF ~parsed.ok
    THEN /\ outputsBuf' = outputsBuf
         /\ routeHistory' = [hist EXCEPT !.resultErrors = Append(@, parsed.err)]
  ELSE IF outputsFilter(parsed.val)
    THEN OutputArrives(
           [outputsBuf EXCEPT ![p] = Append(@, [tag |-> hist.received[p],
                                                messageType |-> parsed.val.messageType,
                                                data |-> parsed.val.data])],
           hist)
  ELSE /\ outputsBuf' = outputsBuf
       /\ routeHistory' = hist

\* history: what spdzMessageStream emitted and which filters let it through
RecordRouted(hist, p, parsed) ==
  [hist EXCEPT
     !.received[p] = @ + 1,
     !.routed = IF parsed.ok
                  THEN Append(@, [party |-> p,
                                  tag |-> hist.received[p] + 1,
                                  messageType |-> parsed.val.messageType,
                                  shares |-> sharesFilter(parsed.val),
                                  outputs |-> outputsFilter(parsed.val)])
                  ELSE @]

\* socket.on('spdz_message') of proxy p: parseSpdzMessage, then both filters.
\* The caller has subscribed to spdzResultStream and to spdzErrorStream.
SpdzMessage(p, message) ==
  /\ proxyLatest[p] = "up"
  /\ spdzLatest[p] = "up"
  /\ routeHistory.received[p] < MaxSpdzMsgs
  /\ SharesPath(p, parseSpdzMessage(message))
  /\ OutputsPath(p, parseSpdzMessage(message),
                 RecordRouted(routeHistory, p, parseSpdzMessage(message)))
  /\ UNCHANGED <<connectionStream, proxyLatest, spdzLatest, connectedToProxies,
                 connectedToSpdz, waits, connHistory, respBuf, respBinds,
                 shareInput, shareResult, flatInput, flatResult, codecCall,
                 codecResult, cryptoVars, restVars, busVars>>

NextRoute ==
  \E p \in Parties : \E message \in RouteMessageSamples : SpdzMessage(p, message)

SpecRoute == InitSend /\ [][NextRoute]_vars
\* ------------------------------------------------------------------ C1

\* the k-th integer of a buffer, its bytes read little endian
WireInt(buf, k) ==
  LET d[j \in 0..INTEGER_LENGTH_BYTES] ==
        IF j = 0 THEN 0
        ELSE d[j - 1] + buf[(k - 1) * INTEGER_LENGTH_BYTES + j] * Pow(BYTE_RANGE, j - 1)
  IN d[INTEGER_LENGTH_BYTES]

\* component comp (1 = a, 2 = b, 3 = c) of triple i summed over the proxies, mod P
SummedComponent(i, comp) ==
  LET s[p \in 0..NumParties] ==
        IF p = 0 THEN 0 ELSE s[p - 1] + WireInt(shareInput[p], 3 * (i - 1) + comp)
  IN s[NumParties] % GFP_PRIME

\* a * b = c in Montgomery form: a * b = c * R (mod P)
SummedTriplePasses(i) ==
  (SummedComponent(i, 1) * SummedComponent(i, 2)) % GFP_PRIME
    = (SummedComponent(i, 3) * R) % GFP_PRIME

ShareTripleCount == Len(shareInput[1]) \div TRIPLE_BYTES

ShareInputDecodable ==
  \A p \in Parties : \A k \in 1..(3 * ShareTripleCount) :
    WireInt(shareInput[p], k) <= GFP_PRIME

ShareValuesAsClaimed(passes) ==
  /\ shareResult.res.ok <=> passes
  /\ shareResult.res.ok =>
       /\ Len(shareResult.res.val) = ShareTripleCount
       /\ \A i \in 1..ShareTripleCount :
            shareResult.res.val[i] = SummedComponent(i, 1)
  /\ ~shareResult.res.ok => shareResult.res.val = <<>>

\* C1 as stated: for equal length buffers of M triples binaryToShare returns the M
\* summed a values if and only if every summed triple passes a * b = c, and
\* returns no value at all otherwise.
C1_AsStated ==
  shareResult.done =>
    ShareValuesAsClaimed(\A i \in 1..ShareTripleCount : SummedTriplePasses(i))

\* C1 amended: the same, provided every integer of every buffer is at most P;
\* a buffer holding an integer above P makes binaryToShare throw, whatever the sums.
C1_ShareOrThrow ==
  shareResult.done =>
    ShareValuesAsClaimed(
      /\ ShareInputDecodable
      /\ \A i \in 1..ShareTripleCount : SummedTriplePasses(i))

\* a second triple fails after a first one that passed: nothing is returned
C1_Witness ==
  /\ shareResult.done
  /\ ShareInputDecodable
  /\ ShareTripleCount >= 2
  /\ SummedTriplePasses(1) /\ SummedComponent(1, 1) # 0
  /\ ~SummedTriplePasses(2)
  /\ ~shareResult.res.ok


\* ------------------------------------------------------------------ C2

\* the ids of the batches waiting in a buffer of the zip
WaitingIds(buf) == [i \in 1..Len(buf) |-> buf[i].id]
IdsFrom(first, n) == [i \in 1..n |-> first + i - 1]

\* the commands sent to proxy p for pair k
SentForPair(p, k) ==
  {j \in 1..Len(sendHistory.socketLog[p]) : sendHistory.socketLog[p][j].pair = k}

\* C2: input batches and reconstructed share batches are paired FIFO and 1:1:
\* pair k is made of the k-th accepted input batch and the k-th share batch,
\* as many pairs are made as the shorter side allows, the batches not yet
\* paired wait in order, and a secret broadcast belongs to one pair already made.
C2_FifoPairing ==
  LET h == sendHistory
      n == Len(h.pairLog)
  IN /\ n = Min(h.inputsAccepted, h.shareBatches)
     /\ \A k \in 1..n : h.pairLog[k].inputId = k /\ h.pairLog[k].shareId = k
     /\ WaitingIds(userInputBuf) = IdsFrom(n + 1, h.inputsAccepted - n)
     /\ WaitingIds(extractedBuf) = IdsFrom(n + 1, h.shareBatches - n)
     /\ \A p \in Parties : \A j \in 1..Len(h.socketLog[p]) :
          h.socketLog[p][j].pair \in 0..n
     /\ \A p \in Parties : \A k \in 1..n : Cardinality(SentForPair(p, k)) <= 1

\* two pairs were made and both were broadcast
C2_Witness ==
  /\ Len(sendHistory.pairLog) = 2
  /\ \A k \in 1..2 : \A p \in Parties : SentForPair(p, k) # {}

\* ------------------------------------------------------------------ C3

\* the integer a base64 text stands for: its bytes read big endian
Base64Value(text) ==
  LET sextets == Cardinality({k \in 1..Len(text) : text[k] # 64})
      bits == 8 * ((6 * sextets) \div 8)
      v[j \in 0..bits] ==
        IF j = 0 THEN 0
        ELSE 2 * v[j - 1] + ((text[((j - 1) \div 6) + 1] \div Pow(2, 5 - ((j - 1) % 6))) % 2)
  IN v[bits]

\* share + input in the field, the input in Montgomery form
MaskedInput(share, input) == (share + ((input % GFP_PRIME) * R)) % GFP_PRIME

InputInRange(input) ==
  \A i \in 1..Len(input) :
    /\ input[i] >= (GFP_PRIME \div 2) - GFP_PRIME
    /\ input[i] < GFP_PRIME \div 2

\* one modp command for pair k reached every proxy, with the same list, its
\* i-th element decoding to share[i] + input[i]
PairBroadcast(k) ==
  LET e == sendHistory.pairLog[k]
  IN \A p \in Parties :
       /\ Cardinality(SentForPair(p, k)) = 1
       /\ \A j \in SentForPair(p, k) :
            LET cmd == sendHistory.socketLog[p][j]
            IN /\ cmd.dataType = "modp"
               /\ Len(cmd.dataArray) = Len(e.input)
               /\ \A i \in 1..Len(e.input) :
                    Base64Value(cmd.dataArray[i]) = MaskedInput(e.shares[i], e.input[i])
               /\ \A q \in Parties : \E m \in SentForPair(q, k) :
                    sendHistory.socketLog[q][m].dataArray = cmd.dataArray

C4_OneAggregateConnect ==
  /\ (\E p \in Parties : connHistory.proxyReports[p] = 0)
       => connHistory.proxyAggCount = 0
  /\ (\A p \in Parties : connHistory.proxyReports[p] = 1 /\ proxyLatest[p] = "up")
       => /\ connHistory.proxyAggCount = 1
          /\ connHistory.lastProxyStatus

\* every proxy has reported its first connect and the one aggregate event is out
C4_Witness ==
  /\ \A p \in Parties : connHistory.proxyReports[p] = 1 /\ proxyLatest[p] = "up"
  /\ connHistory.proxyAggCount = 1

\* ------------------------------------------------------------------ C5

FlatSameType == \A i, j \in 1..Len(flatInput) : flatInput[i].eventType = flatInput[j].eventType

\* C5: for a non empty list flattenResponseMessage keeps the common event
\* type with the AND of the statuses, or gives 'error' and false when two
\* event types differ; msg is the list itself.
C5_Flatten ==
  flatResult.done =>
    /\ flatResult.res.msg = flatInput
    /\ FlatSameType =>
         /\ flatResult.res.eventType = flatInput[1].eventType
         /\ flatResult.res.status <=> \A i \in 1..Len(flatInput) : flatInput[i].status
    /\ ~FlatSameType =>
         /\ flatResult.res.eventType = ERROR
         /\ flatResult.res.status = FALSE

\* messages of one type, one of them with status false, were flattened
C5_Witness ==
  /\ flatResult.done
  /\ Len(flatInput) >= 2
  /\ FlatSameType
  /\ flatInput[1].status
  /\ ~flatInput[Len(flatInput)].status
  /\ ~flatResult.res.status

\* ------------------------------------------------------------------ C6

AllProxiesReported == \A p \in Parties : proxyLatest[p] # "none"
AllProxiesUp == \A p \in Parties : proxyLatest[p] = "up"

\* C6: once every proxy has reported, the status of the latest aggregate
\* 'Proxy connect' event and the connectedToProxies flag are true exactly
\* when the latest event of every proxy has status true.
C6_AnyProxyDown ==
  AllProxiesReported =>
    /\ connHistory.lastProxyStatus <=> AllProxiesUp
    /\ connectedToProxies <=> AllProxiesUp

\* all proxies were connected, then one of them went down while another stayed up
C6_Witness ==
  /\ waits["proxy"].state = "resolved"
  /\ \E p \in Parties : proxyLatest[p] = "down"
  /\ \E p \in Parties : proxyLatest[p] = "up"
  /\ ~connectedToProxies
  /\ ~connHistory.lastProxyStatus

\* ------------------------------------------------------------------ C7

ConnectTimeoutMessage == "Unable to connect to SPDZ engines."

\* the promise resolves only in a step in which connectionStream emits
\* 'SPDZ connect' with status true
ConnectResolvesOnEvent ==
  (waits["connect"].state # "resolved" /\ waits'["connect"].state = "resolved")
    => /\ connHistory'.lastAgg.tick # connHistory.lastAgg.tick
       /\ connHistory'.lastAgg.eventType = SPDZ_CONNECT
       /\ connHistory'.lastAgg.status

\* the timer running out rejects the pending promise
ConnectTimeoutRejects ==
  (waits["connect"].state = "pending" /\ waits["connect"].timer = "armed"
     /\ waits'["connect"].timer = "fired")
    => /\ waits'["connect"].state = "rejected"
       /\ waits'["connect"].reason = ConnectTimeoutMessage

\* C7 as stated: the promise resolves only on an aggregate 'SPDZ connect'
\* event with status true, and is rejected only by the timeout, with
\* 'Unable to connect to SPDZ engines.'
C7_AsStated ==
  [][/\ ConnectResolvesOnEvent
     /\ ConnectTimeoutRejects
     /\ (waits["connect"].state # "rejected" /\ waits'["connect"].state = "rejected")
          => /\ waits["connect"].timer = "armed"
             /\ waits'["connect"].timer = "fired"
             /\ waits'["connect"].reason = ConnectTimeoutMessage]_vars

\* C7 amended: called while connected to all proxies the promise stays
\* pending until an aggregate 'SPDZ connect' event with status true resolves
\* it or the timeout rejects it with 'Unable to connect to SPDZ engines.';
\* called while not connected to all proxies it is rejected in the call, with
\* the error of connectToSpdz.
C7_ResolveOrTimeout ==
  [][/\ ConnectResolvesOnEvent
     /\ ConnectTimeoutRejects
     /\ (waits["connect"].state = "pending" /\ waits'["connect"].state = "rejected")
          => /\ waits["connect"].timer = "armed"
             /\ waits'["connect"].timer = "fired"
             /\ waits'["connect"].reason = ConnectTimeoutMessage
     /\ (waits["connect"].state = "idle" /\ waits'["connect"].state # "idle")
          => IF connectionStream /\ connectedToProxies
               THEN waits'["connect"].state = "pending"
               ELSE /\ waits'["connect"].state = "rejected"
                    /\ waits'["connect"].reason =
                         IF connectionStream
                           THEN "Cannot run SPDZ connection if not connected to all SPDZ Proxies."
                           ELSE "Not connected to SPDZ Proxies, unable to run request."]_vars

\* the timeout rejected the promise after an aggregate 'SPDZ connect' event
\* with status false had been seen
C7_Witness ==
  /\ waits["connect"].state = "rejected"
  /\ waits["connect"].reason = ConnectTimeoutMessage
  /\ \A p \in Parties : spdzLatest[p] # "none"
  /\ connHistory.lastAgg.eventType = SPDZ_CONNECT
  /\ ~connHistory.lastAgg.status

\* ------------------------------------------------------------------ C8

\* C8: a bounded wait settled by its handler, on the awaited event or on the
\* timeout, has been settled by one call only and is no longer subscribed, so
\* that no later event or timeout reaches its handler.
C8_SettledOnceAndReleased ==
  \A k \in WaitKinds :
    (waits[k].state \in {"resolved", "rejected"} /\ ~waits[k].threw)
      => /\ ~waits[k].subscribed
         /\ waits[k].settles = 1
         /\ waits[k].state = "rejected" => waits[k].timer = "fired"

\* the awaited event resolved a wait and its timer ran out afterwards
C8_Witness ==
  \E k \in WaitKinds :
    /\ waits[k].state = "resolved"
    /\ waits[k].timer = "fired"
    /\ waits[k].settles = 1
    /\ ~waits[k].subscribed

\* ------------------------------------------------------------------ C9

\* C9 as stated: a send promise that is pending is settled in the end, whether
\* or not shares or sendData results arrive.
C9_SendSettles ==
  \A i \in 1..MaxSends :
    (Len(sendWaits) >= i /\ sendWaits[i].state = "pending")
      ~> (Len(sendWaits) >= i /\ sendWaits[i].state # "pending")

\* ----------------------------------------------------------------- C10

\* the tags of the share messages waiting in the zip of proxy p
WaitingTags(p) == [i \in 1..Len(sharesBuf[p]) |-> sharesBuf[p][i].tag]

\* C10: unit k of combinedSharesStream holds the k-th share message of every
\* proxy, a unit is emitted as soon as, and not before, every proxy has
\* produced its message, and the messages not yet in a unit wait in order.
C10_ZipKeepsOrder ==
  LET n == Len(sendHistory.zipUnits)
  IN /\ \A k \in 1..n : \A p \in Parties : sendHistory.zipUnits[k][p] = k
     /\ \A p \in Parties : n <= sendHistory.fed[p]
     /\ \E p \in Parties : n = sendHistory.fed[p]
     /\ \A p \in Parties : WaitingTags(p) = IdsFrom(n + 1, sendHistory.fed[p] - n)

\* two units were emitted
C10_Witness ==
  /\ Len(sendHistory.zipUnits) = 2
  /\ \A p \in Parties : sendHistory.fed[p] = 2

\* ----------------------------------------------------------------- C12

PairedShareIds == {sendHistory.pairLog[k].shareId : k \in 1..Len(sendHistory.pairLog)}

\* C12: a share batch is consumed by at most one input batch: no two pairs
\* hold the same share batch or the same input batch, a paired share batch
\* no longer waits in the zip, and at most one command is sent for a pair.
C12_ShareBatchUsedOnce ==
  /\ \A j, k \in 1..Len(sendHistory.pairLog) :
       j # k => /\ sendHistory.pairLog[j].shareId # sendHistory.pairLog[k].shareId
                /\ sendHistory.pairLog[j].inputId # sendHistory.pairLog[k].inputId
  /\ \A i \in 1..Len(extractedBuf) : extractedBuf[i].id \notin PairedShareIds
  /\ \A p \in Parties : \A k \in 1..Len(sendHistory.pairLog) :
       Cardinality(SentForPair(p, k)) <= 1

\* two share batches masked two input batches and none is left
C12_Witness ==
  /\ Len(sendHistory.pairLog) = 2
  /\ \A k \in 1..2 : sendHistory.pairLog[k].outcome = "value"
  /\ extractedBuf = <<>>
  /\ sendHistory.shareBatches = 2

\* ----------------------------------------------------------------- C13

\* C13 as stated: a pair of batches of different lengths sends no command,
\* consumes both batches and produces the error 'Trying to send n input(s)
\* but m share(s) suppled.', which reaches a caller as a 'send input' response
\* with status false.
C13_MismatchReachesCaller ==
  \A k \in 1..Len(sendHistory.pairLog) :
    LET e == sendHistory.pairLog[k]
    IN Len(e.input) # Len(e.shares)
         => /\ e.outcome = "error"
            /\ e.errMsg = <<Len(e.input), Len(e.shares)>>
            /\ \A p \in Parties : SentForPair(p, k) = {}
            /\ \A i \in 1..Len(userInputBuf) : userInputBuf[i].id # e.inputId
            /\ \A i \in 1..Len(extractedBuf) : extractedBuf[i].id # e.shareId
            /\ e.heard >= 1

\* ----------------------------------------------------------------- C14

\* C14 as stated: the error of a pair whose share count does not fit its
\* input count is reported on spdzErrorStream.
C14_MismatchOnErrorStream ==
  \A k \in 1..Len(sendHistory.pairLog) :
    sendHistory.pairLog[k].outcome = "error"
      => \E j \in 1..Len(sendHistory.spdzErrors) :
           sendHistory.spdzErrors[j] = "Trying to send input(s) but share(s) suppled."

\* ----------------------------------------------------------------- C15

\* C15 as stated: the input batch that was waiting when a share batch failed
\* the triple verification is never broadcast.
C15_FailedBatchNotRetried ==
  \A k \in 1..Len(sendHistory.pairLog) :
    sendHistory.pairLog[k].inputId \in sendHistory.failedFor
      => \A p \in Parties : SentForPair(p, k) = {}

\* ----------------------------------------------------------------- C17

\* a request is made in this step
ConnectCalled == waits["connect"].state = "idle" /\ waits'["connect"].state # "idle"
DisconnectCalled == waits["disconnect"].state = "idle" /\ waits'["disconnect"].state # "idle"
SendCalled == Len(sendWaits') = Len(sendWaits) + 1

\* the request threw: nothing was broadcast or enqueued
FailedInCall(w) ==
  /\ w.state = "rejected"
  /\ w.threw
  /\ socketOut' = socketOut
  /\ userInputBuf' = userInputBuf
  /\ sendHistory' = sendHistory

\* C17: connectToSpdz broadcasts its command when the latest aggregate
\* 'Proxy connect' status is true and otherwise throws and broadcasts nothing;
\* disconnectFromSpdz does so for the latest aggregate 'SPDZ connect' status;
\* sendInputsWithShares and sendClearInputs enqueue or broadcast when both
\* are true and otherwise throw and enqueue or broadcast nothing.
C17_CommandsInStage ==
  [][/\ ConnectCalled =>
          IF connHistory.lastProxyStatus
            THEN socketOut' = webSocketBusPush(socketOut, [eventType |-> "connectToSpdz"])
            ELSE FailedInCall(waits'["connect"])
     /\ DisconnectCalled =>
          IF connHistory.lastSpdzStatus
            THEN socketOut' = webSocketBusPush(socketOut, [eventType |-> "disconnectFromSpdz"])
            ELSE FailedInCall(waits'["disconnect"])
     /\ SendCalled =>
          IF connHistory.lastProxyStatus /\ connHistory.lastSpdzStatus
            THEN \/ sendHistory'.inputsAccepted = sendHistory.inputsAccepted + 1
                 \/ \A p \in Parties :
                      /\ Len(socketOut'[p]) = Len(socketOut[p]) + 1
                      /\ socketOut'[p][Len(socketOut'[p])].eventType = "sendData"
            ELSE FailedInCall(sendWaits'[Len(sendWaits')])]_vars

\* the engines were connected and are not any more, and a send made since
\* then was refused, as was a second disconnect
C17_Witness ==
  /\ waits["connect"].state = "resolved"
  /\ connHistory.lastProxyStatus
  /\ ~connHistory.lastSpdzStatus
  /\ \E i \in 1..Len(sendWaits) :
       /\ sendWaits[i].threw
       /\ sendWaits[i].reason = "Not connected to all SPDZ Proxies/Engines."
  /\ \E i \in 1..Len(sendWaits) : ~sendWaits[i].threw

\* ----------------------------------------------------------------- C18

\* the k-th integer of size bytes of a buffer, read little endian
LittleEndianAt(buf, k, size) ==
  LET d[j \in 0..size] ==
        IF j = 0 THEN 0
        ELSE d[j - 1] + buf[(k - 1) * size + j] * Pow(BYTE_RANGE, j - 1)
  IN d[size]

DecodedSequence(buf, size) ==
  [k \in 1..(Len(buf) \div size) |-> LittleEndianAt(buf, k, size)]

ArrayIntegerSize ==
  IF codecCall.fn = "binaryToIntArray" THEN INT32_LENGTH_BYTES ELSE INTEGER_LENGTH_BYTES

\* every buffer has a valid length and holds values the function can decode
ArrayInputDecodable ==
  \A p \in 1..Len(codecCall.arg) :
    /\ Len(codecCall.arg[p]) % ArrayIntegerSize = 0
    /\ codecCall.fn = "binaryToGfpArray" =>
         \A k \in 1..(Len(codecCall.arg[p]) \div ArrayIntegerSize) :
           LittleEndianAt(codecCall.arg[p], k, ArrayIntegerSize) <= GFP_PRIME

PartiesDisagree ==
  \E p, q \in 1..Len(codecCall.arg) :
    DecodedSequence(codecCall.arg[p], ArrayIntegerSize)
      # DecodedSequence(codecCall.arg[q], ArrayIntegerSize)

ConsistencyError == "Not all parties have sent the same result."

\* C18 as stated: for buffers of valid length binaryToIntArray and
\* binaryToGfpArray raise the consistency error exactly when the decoded
\* sequences of two parties differ, and return the agreed sequence otherwise.
C18_ConsistencyIff ==
  (codecResult.done /\ codecCall.fn \in {"binaryToIntArray", "binaryToGfpArray"}
     /\ ArrayInputDecodable)
    => /\ (~codecResult.res.ok /\ codecResult.res.err = ConsistencyError)
            <=> PartiesDisagree
       /\ ~PartiesDisagree =>
            /\ codecResult.res.ok
            /\ codecResult.res.val = DecodedSequence(codecCall.arg[1], ArrayIntegerSize)

\* ----------------------------------------------------------------- C19

\* the first four bytes read as a little endian integer
HeaderValue(bytes) == LittleEndianAt(bytes, 1, 4)

ParseMustFail(m) ==
  \/ m.keyed /\ ~m.opens
  \/ Len(m.bytes) < 8
  \/ HeaderValue(m.bytes) \notin 0..4

\* C19: parseSpdzMessage yields the error value exactly when decryption
\* fails, the clear message has fewer than 8 bytes or its first 4 bytes, read
\* little endian, are not in 0..4; otherwise it yields that message type and
\* all remaining bytes as data.
C19_ParseOrError ==
  (codecResult.done /\ codecCall.fn = "parseSpdzMessage")
    => /\ ~codecResult.res.ok <=> ParseMustFail(codecCall.arg)
       /\ codecResult.res.ok =>
            /\ codecResult.res.val.messageType = HeaderValue(codecCall.arg.bytes)
            /\ codecResult.res.val.data =
                 SubSeq(codecCall.arg.bytes, 5, Len(codecCall.arg.bytes))

\* an encrypted message of type 4 with six bytes of data was parsed
C19_Witness ==
  /\ codecResult.done
  /\ codecCall.fn = "parseSpdzMessage"
  /\ codecCall.arg.keyed
  /\ codecResult.res.ok
  /\ codecResult.res.val.messageType = 4
  /\ Len(codecResult.res.val.data) = 6

\* ----------------------------------------------------------------- C20

RoundTripDone == codecResult.done /\ codecCall.fn = "fromUserInput.toJSInteger"

\* -P/2 <= v < P/2, P/2 being the integer GFP_PRIME.divide(2)
InUserRange(v) == v >= -(GFP_PRIME \div 2) /\ v < GFP_PRIME \div 2

\* C20 as stated: Gfp.fromUserInput(v).toJSInteger() returns v for every v
\* with -P/2 <= v < P/2.
C20_AsStated ==
  (RoundTripDone /\ InUserRange(codecCall.arg))
    => codecResult.res.ok /\ codecResult.res.val = codecCall.arg

\* C20 amended: it returns v when v is also an exact integer of JavaScript
\* (at most MAX_SAFE_INTEGER in absolute value), and throws the overflow
\* error for the other v of the range.
C20_RoundTripOfSafeIntegers ==
  (RoundTripDone /\ InUserRange(codecCall.arg))
    => IF codecCall.arg >= -MAX_SAFE_INTEGER /\ codecCall.arg <= MAX_SAFE_INTEGER
         THEN codecResult.res.ok /\ codecResult.res.val = codecCall.arg
         ELSE ~codecResult.res.ok
                /\ codecResult.res.err = "Overflow converting Gfp to JS Integer."

\* a negative integer came back from the field
C20_Witness ==
  /\ RoundTripDone
  /\ codecCall.arg < 0
  /\ codecResult.res.ok
  /\ codecResult.res.val = codecCall.arg

\* ------------------------------------------------------------------ C11

\* the messages of proxy p that spdzMessageStream emitted with a type in types
RoutedOf(p, types) ==
  {i \in DOMAIN routeHistory.routed :
     routeHistory.routed[i].party = p /\ routeHistory.routed[i].messageType \in types}

\* the output messages of proxy p that combinedOutputsStream took so far
OutputsFed(p) == Len(outputsBuf[p]) + Len(routeHistory.outUnits)

\* C11: every successfully parsed message of a proxy goes to exactly one path:
\* a message of type TRIPLE_SHARES (1) only to the zip of the shares, a message
\* of type 0, 2, 3 or 4 only to the zip of the outputs
C11_ExactlyOnePath ==
  /\ \A i \in DOMAIN routeHistory.routed :
       /\ routeHistory.routed[i].shares = (routeHistory.routed[i].messageType = 1)
       /\ routeHistory.routed[i].outputs = (routeHistory.routed[i].messageType \in {0, 2, 3, 4})
       /\ routeHistory.routed[i].shares # routeHistory.routed[i].outputs
  /\ \A p \in Parties :
       /\ sendHistory.fed[p] = Cardinality(RoutedOf(p, {1}))
       /\ OutputsFed(p) = Cardinality(RoutedOf(p, {0, 2, 3, 4}))

\* a proxy has sent a share message and an output message, and both were taken
C11_Witness ==
  \E p \in Parties :
    /\ RoutedOf(p, {1}) # {}
    /\ RoutedOf(p, {3}) # {}
    /\ sendHistory.fed[p] = 1
    /\ OutputsFed(p) = 1

\* ------------------------------------------------------------------ C16

\* the errors parseSpdzMessage makes, which belong to no unit
ParseErrorMessages ==
  {"Authentication/decryption failed.", "Message from SPDZ must be at least 8 bytes.",
   "Unknown message type."}

UnitErrors(errors) == {i \in DOMAIN errors : errors[i] \notin ParseErrorMessages}

\* every proxy sent the same bytes in unit k of the outputs
UnitAgrees(k) ==
  \A p \in Parties : routeHistory.outUnits[k][p].data = routeHistory.outUnits[k][1].data

UnitIsInt32(k) ==
  \A p \in Parties : routeHistory.outUnits[k][p].messageType = MESSAGE_TYPE.INT_32

\* C16: every unit of outputs is answered in its turn, by its value on
\* spdzResultStream or by an error on spdzErrorStream, also after the error of
\* an earlier unit; a value is given only for a unit the proxies agree on, and
\* every unit of shares gives a share batch or an error on spdzErrorStream
C16_ErrorsDoNotBlockResults ==
  /\ Len(routeHistory.results) = Len(routeHistory.outUnits)
  /\ \A k \in DOMAIN routeHistory.results :
       /\ routeHistory.results[k].ok => UnitAgrees(k) /\ routeHistory.results[k].val # <<>>
       /\ UnitAgrees(k) /\ UnitIsInt32(k) =>
            /\ routeHistory.results[k].ok
            /\ routeHistory.results[k].val
                 = DecodedSequence(routeHistory.outUnits[k][1].data, INT32_LENGTH_BYTES)
       /\ ~routeHistory.results[k].ok =>
            \E i \in UnitErrors(routeHistory.resultErrors) :
              routeHistory.resultErrors[i] = routeHistory.results[k].err
  /\ Cardinality(UnitErrors(routeHistory.resultErrors))
       = Cardinality({k \in DOMAIN routeHistory.results : ~routeHistory.results[k].ok})
  /\ Len(sendHistory.zipUnits)
       = sendHistory.shareBatches + Cardinality(UnitErrors(sendHistory.spdzErrors))

\* a unit of outputs failed, the next one was delivered, and a unit of shares
\* failed the check of its triple
C16_Witness ==
  /\ Len(routeHistory.results) = 2
  /\ ~routeHistory.results[1].ok
  /\ routeHistory.results[1].err = "Not all parties have sent the same result."
  /\ routeHistory.results[2].ok
  /\ routeHistory.results[2].val = <<2>>
  /\ \E i \in DOMAIN sendHistory.spdzErrors :
       sendHistory.spdzErrors[i] = "Triple to be used for a share failed check."

\* ------------------------------------------------------------------ C21

FromUserInputDone == codecResult.done /\ codecCall.fn = "fromUserInput"

RangeError == "Got an integer which exceeds the field size -prime/2 to prime/2."

\* the value the claim says is stored: ((v mod P) * R) mod P
StoredOfUser(v) == ((v % GFP_PRIME) * R) % GFP_PRIME

\* C21 as stated: Gfp.fromUserInput(v) fails with the range error exactly when
\* v < -P/2 or v >= P/2 (P being odd, when 2v < -P or 2v >= P), and stores
\* ((v mod P) * R) mod P for every other v.
C21_AsStated ==
  FromUserInputDone =>
    IF 2 * codecCall.arg < -GFP_PRIME \/ 2 * codecCall.arg >= GFP_PRIME
      THEN ~codecResult.res.ok /\ codecResult.res.err = RangeError
      ELSE codecResult.res.ok /\ codecResult.res.val = StoredOfUser(codecCall.arg)

\* C21 amended: it fails exactly when v < floor(P/2) - P or v >= floor(P/2),
\* and stores ((v mod P) * R) mod P for every other v.
C21_RangeOfUserInput ==
  FromUserInputDone =>
    IF codecCall.arg < (GFP_PRIME \div 2) - GFP_PRIME \/ codecCall.arg >= GFP_PRIME \div 2
      THEN ~codecResult.res.ok /\ codecResult.res.err = RangeError
      ELSE codecResult.res.ok /\ codecResult.res.val = StoredOfUser(codecCall.arg)

\* the least integer that is taken, floor(P/2) - P, was stored
C21_Witness ==
  /\ FromUserInputDone
  /\ codecCall.arg = (GFP_PRIME \div 2) - GFP_PRIME
  /\ codecResult.res.ok
  /\ codecResult.res.val = StoredOfUser(codecCall.arg)

\* ------------------------------------------------------------------ C22

\* the call made a Gfp instance, whose stored value is InstanceVals
InstanceMade ==
  /\ codecResult.done
  /\ codecResult.res.ok
  /\ codecCall.fn \in {"fromUserInput", "fromSpdz", "add.multiply",
                       "fromUserInput.add.multiply"}

InstanceVals ==
  IF codecCall.fn \in {"fromUserInput", "fromSpdz"} THEN {codecResult.res.val}
  ELSE {codecResult.res.val[k] : k \in DOMAIN codecResult.res.val}

\* C22: every Gfp instance, made by fromUserInput, by fromSpdz of an accepted
\* wire value, by add or by multiply, holds a stored value s with 0 <= s < P
C22_StoredBelowPrime ==
  InstanceMade => \A s \in InstanceVals : 0 <= s /\ s < GFP_PRIME

\* ------------------------------------------------------------------ C23

AlgebraDone == codecResult.done /\ codecCall.fn = "add.multiply"
UserAlgebraDone == codecResult.done /\ codecCall.fn = "fromUserInput.add.multiply"

\* the integers fromUserInput takes
UserTaken(v) == v >= (GFP_PRIME \div 2) - GFP_PRIME /\ v < GFP_PRIME \div 2

\* the signed representative of n mod P among the integers fromUserInput takes
SignedRepresentative(n) ==
  IF n % GFP_PRIME >= GFP_PRIME \div 2 THEN (n % GFP_PRIME) - GFP_PRIME ELSE n % GFP_PRIME

\* C23: add and multiply are commutative and associative, multiply distributes
\* over add, and for integers x and y that fromUserInput takes the sum and the
\* product of their instances are the instances of the signed representatives
\* of (x + y) mod P and (x * y) mod P
C23_FieldAlgebra ==
  /\ AlgebraDone =>
       /\ codecResult.res.val.addXY = codecResult.res.val.addYX
       /\ codecResult.res.val.addXY_Z = codecResult.res.val.addX_YZ
       /\ codecResult.res.val.mulXY = codecResult.res.val.mulYX
       /\ codecResult.res.val.mulXY_Z = codecResult.res.val.mulX_YZ
       /\ codecResult.res.val.mulX_addYZ = codecResult.res.val.addMulXY_mulXZ
  /\ (UserAlgebraDone /\ UserTaken(codecCall.arg[1]) /\ UserTaken(codecCall.arg[2])) =>
       /\ codecResult.res.ok
       /\ codecResult.res.val.sum
            = StoredOfUser(SignedRepresentative(codecCall.arg[1] + codecCall.arg[2]))
       /\ codecResult.res.val.product
            = StoredOfUser(SignedRepresentative(codecCall.arg[1] * codecCall.arg[2]))

\* the product of a positive and a negative integer wrapped around the prime
C23_Witness ==
  /\ UserAlgebraDone
  /\ codecCall.arg = <<5, -4>>
  /\ codecResult.res.ok
  /\ codecResult.res.val.product = StoredOfUser(6 - GFP_PRIME)

\* ------------------------------------------------------------------ C24

HexStringDone == codecResult.done /\ codecCall.fn = "toNativeHexString"

\* the digits read as a big endian number of base 16
RECURSIVE HexValue(_)
HexValue(digits) ==
  IF Len(digits) = 0 THEN 0
  ELSE HexValue(SubSeq(digits, 1, Len(digits) - 1)) * 16 + digits[Len(digits)]

WholeDecryptDone == cryptoHistory.fn = "decrypt" /\ cryptoHistory.arg[2] = 0

\* C25: decrypt(k, encrypt(k, m)) returns m, decrypt(k2, encrypt(k, m)) with
\* another key k2 fails with 'Authentication/decryption failed.', and the
\* message encrypt returns has the length of m and 40 bytes more: the tag of
\* 16 bytes before the cipher text and the nonce of 24 bytes after it
C25_EncryptDecrypt ==
  /\ WholeDecryptDone =>
       IF cryptoHistory.arg[1] = cipherMessage.key
         THEN cryptoHistory.res.ok /\ cryptoHistory.res.val = cipherMessage.clear
         ELSE ~cryptoHistory.res.ok
                /\ cryptoHistory.res.err = "Authentication/decryption failed."
  /\ cipherMessage.sealed =>
       /\ Len(cipherMessage.bytes) = Len(cipherMessage.clear) + 40
       /\ \E nonce \in Nonces :
            SubSeq(cipherMessage.bytes, 17 + Len(cipherMessage.clear),
                   Len(cipherMessage.bytes)) = nonce

\* a message of two bytes came back under its key
C25_Witness ==
  /\ WholeDecryptDone
  /\ cipherMessage.clear = <<3, 2>>
  /\ cryptoHistory.arg[1] = cipherMessage.key
  /\ cryptoHistory.res.ok
  /\ cryptoHistory.res.val = <<3, 2>>

\* ------------------------------------------------------------------ C26

\* C26: once there is a key pair, only a setDHKeyPair that succeeds changes
\* it; createClientPublicKey returns the public key of the pair, the one there
\* was before the call if there was one, and after setDHKeyPair(pub, priv) the
\* pair is pub and priv
C26_KeyPairMemoized ==
  /\ [][(dhKeyPair.defined /\ dhKeyPair' # dhKeyPair) =>
          (cryptoHistory'.fn = "setDHKeyPair" /\ cryptoHistory'.res.ok)]_vars
  /\ [](cryptoHistory.fn = "createClientPublicKey" =>
          /\ dhKeyPair.defined
          /\ cryptoHistory.res.val = dhKeyPair.clientPublicKey
          /\ cryptoHistory.before.defined => dhKeyPair = cryptoHistory.before)
  /\ []((cryptoHistory.fn = "setDHKeyPair" /\ cryptoHistory.res.ok) =>
          /\ dhKeyPair.defined
          /\ dhKeyPair.clientPublicKey = cryptoHistory.arg[1].key
          /\ dhKeyPair.clientPrivateKey = cryptoHistory.arg[2].key)
  /\ [](cryptoHistory.fn = "createEncryptionKey" /\ cryptoHistory.before.defined =>
          dhKeyPair = cryptoHistory.before)

\* createClientPublicKey returned the public key setDHKeyPair had set, which
\* is not the one of the private key
C26_Witness ==
  /\ cryptoHistory.fn = "createClientPublicKey"
  /\ cryptoHistory.before.defined
  /\ cryptoHistory.before.clientPublicKey = 12
  /\ cryptoHistory.before.clientPrivateKey = 1
  /\ cryptoHistory.res.val = 12

\* ------------------------------------------------------------------ C27

\* the urls of the request whose connection was made
ConnectedUrls ==
  {restCall.list[i] : i \in {j \in DOMAIN restCall.entries : restCall.entries[j].outcome.ok}}

\* C27: connectToSPDZ never rejects; it resolves to one entry for each url, in
\* the order of the urls, with status Connected and the generated client id
\* where the connection was made and status Failure elsewhere, and when it
\* resolves a client id is stored for exactly the urls whose connection was
\* made in this request
C27_ConnectResolves ==
  restCall.kind = "connect" =>
    /\ restCall.settled # "rejected"
    /\ restCall.settled = "resolved" =>
         /\ Len(restCall.value) = Len(restCall.list)
         /\ \A i \in DOMAIN restCall.list :
              /\ restCall.value[i].id = i - 1
              /\ IF restCall.entries[i].outcome.ok
                   THEN /\ restCall.value[i].status = 2
                        /\ restCall.value[i].clientId = restCall.entries[i].outcome.val
                   ELSE restCall.value[i].status = 3
         /\ \A u \in Urls : (clientIds[u] # NoClientId) <=> (u \in ConnectedUrls)

\* a second connectToSPDZ resolved with one connection made and one failed,
\* after an earlier one had stored the id of the url that now failed
C27_Witness ==
  /\ restCall.kind = "connect"
  /\ restCall.settled = "resolved"
  /\ restCall.list = <<1, 2>>
  /\ restCall.idsAtCall[2] # NoClientId
  /\ restCall.entries[1].outcome.ok
  /\ ~restCall.entries[2].outcome.ok
  /\ clientIds[2] = NoClientId

\* ------------------------------------------------------------------ C28

ConsumeCalled == restCall.kind = "consume" /\ restCall.hasUrl /\ restCall.list # <<>>

\* a listed proxy had no client id, or the request to a proxy has failed
ConsumeMustReject ==
  \/ \E i \in DOMAIN restCall.list : restCall.idsAtCall[restCall.list[i]] = NoClientId
  \/ \E i \in DOMAIN restCall.entries :
       restCall.entries[i].state # "pending" /\ ~restCall.entries[i].outcome.ok

ConsumeAllAnswered ==
  \A i \in DOMAIN restCall.entries : restCall.entries[i].state # "pending"

\* the payload of proxy i opens under the key of that proxy
PayloadOpens(i) ==
  decryptCipherMessage(encryptionKeyOf(restCall.list[i]), restCall.entries[i].outcome.val).ok

\* the buffer for proxy i: its payload, decrypted when encrypted is true
ConsumedBuffer(i) ==
  IF restCall.encrypted
    THEN crypto_secretbox_open_easy(
           SubSeq(restCall.entries[i].outcome.val, 1,
                  Len(restCall.entries[i].outcome.val) - 24),
           SubSeq(restCall.entries[i].outcome.val,
                  Len(restCall.entries[i].outcome.val) - 23,
                  Len(restCall.entries[i].outcome.val)),
           encryptionKeyOf(restCall.list[i])).val
    ELSE restCall.entries[i].outcome.val

\* C28 as stated: consumeDataFromProxies rejects if a listed proxy has no
\* stored client id or the consume request of a proxy fails; otherwise it
\* resolves to one buffer for each proxy in the order of the list, decrypted
\* with the key of that proxy when encrypted is true.
C28_AsStated ==
  ConsumeCalled =>
    IF ConsumeMustReject THEN restCall.settled = "rejected"
    ELSE ConsumeAllAnswered =>
           /\ restCall.settled = "resolved"
           /\ Len(restCall.value) = Len(restCall.list)
           /\ \A i \in DOMAIN restCall.list : restCall.value[i] = ConsumedBuffer(i)

\* C28 amended: it also rejects when encrypted is true and the payload of a
\* proxy does not open under the key of that proxy, and when the list is
\* empty or an entry has no url.
C28_ConsumeRejectsOrResolves ==
  /\ (restCall.kind = "consume" /\ ~ConsumeCalled) =>
       restCall.settled = "rejected" /\ restCall.value = RequiredKeysError
  /\ ConsumeCalled =>
       IF ConsumeMustReject THEN restCall.settled = "rejected"
       ELSE IF restCall.encrypted
               /\ \E i \in DOMAIN restCall.entries :
                    restCall.entries[i].state # "pending" /\ ~PayloadOpens(i)
         THEN /\ restCall.settled = "rejected"
              /\ restCall.value \in {"Authentication/decryption failed.",
                                     "The cipher message must be at least 40 bytes length."}
       ELSE ConsumeAllAnswered =>
              /\ restCall.settled = "resolved"
              /\ Len(restCall.value) = Len(restCall.list)
              /\ \A i \in DOMAIN restCall.list : restCall.value[i] = ConsumedBuffer(i)

\* two proxies answered with messages under their own keys, and the clear
\* messages came back in the order of the list
C28_Witness ==
  /\ restCall.kind = "consume"
  /\ restCall.encrypted
  /\ restCall.list = <<2, 1>>
  /\ restCall.settled = "resolved"
  /\ restCall.value = <<(<<1>>), (<<1>>)>>

\* ------------------------------------------------------------------ C29

\* C29: disconnectFromSPDZ resolves with status Disconnected for every listed
\* proxy and leaves none of them a client id, whether its disconnect request
\* succeeded or failed; from then on, until connectToSPDZ stores a client id
\* for it again, such a proxy has no client id, and consumeDataFromProxies and
\* sendInputsToProxies with it in their list reject as not connected
C29_DisconnectedUntilConnect ==
  /\ (restCall.kind = "disconnect" /\ restCall.settled = "resolved") =>
       /\ Len(restCall.value) = Len(restCall.list)
       /\ \A i \in DOMAIN restCall.list :
            /\ restCall.value[i] = [id |-> i - 1, status |-> 1]
            /\ clientIds[restCall.list[i]] = NoClientId
  /\ (restCall.kind = "disconnect" /\ restCall.hasUrl /\ restCall.list # <<>>) =>
       restCall.settled # "rejected"
  /\ \A u \in restHistory.disconnected : clientIds[u] = NoClientId
  /\ (restCall.kind \in {"consume", "send"} /\ restCall.hasUrl
        /\ \E i \in DOMAIN restCall.list : restCall.list[i] \in restCall.disconnectedAtCall) =>
       /\ restCall.settled = "rejected"
       /\ \E u \in Urls : restCall.value = <<"Not connected to SPDZ for proxy", u>>

\* the disconnect request of a proxy failed and its client id is gone
C29_Witness ==
  /\ restCall.kind = "disconnect"
  /\ restCall.settled = "resolved"
  /\ restCall.list = <<1>>
  /\ restCall.idsAtCall[1] # NoClientId
  /\ restCall.entries[1].outcome.err = "Unable to disconnect from SPDZ proxy engine."
  /\ clientIds[1] = NoClientId

\* ------------------------------------------------------------------ C30

\* C30: the client ids change only in connectToSPDZ and disconnectFromSPDZ and
\* in the answers to them: checkProxies, consumeDataFromProxies and
\* sendInputsToProxies leave them as they are, whether they succeed or fail
C30_OnlyConnectAndDisconnectWrite ==
  [][restCall'.kind \in {"check", "consume", "send"} => clientIds' = clientIds]_vars

\* consumeDataFromProxies was rejected by the failure of a proxy while the
\* client ids of both proxies stayed
C30_Witness ==
  /\ restCall.kind = "consume"
  /\ restCall.settled = "rejected"
  /\ \E i \in DOMAIN restCall.entries :
       restCall.entries[i].outcome.err = "No data is available to consume from the SPDZ proxy."
  /\ \A u \in Urls : clientIds[u] # NoClientId /\ clientIds[u] = restCall.idsAtCall[u]

\* ---------------------------------------------------------------------- C31

\* the width of one value of a message type, for the types that carry values
TypesWithWidth ==
  {MESSAGE_TYPE.TRIPLE_SHARES, MESSAGE_TYPE.CLEAR_MODP_INT, MESSAGE_TYPE.INT_32,
   MESSAGE_TYPE.CLEAR_MODP_FIX}

width(messageType) ==
  IF messageType = MESSAGE_TYPE.INT_32 THEN INT32_LENGTH_BYTES ELSE INTEGER_LENGTH_BYTES

ParseSpdzMessageDone == codecCall.fn = "parseSpdzMessage" /\ codecResult.done

\* C31: every message parseSpdzMessage produces has a payload whose length is
\* a multiple of the width of its message type (4 for Int32, the length of a
\* field element for TripleShares, ClearModPInt and ClearModPFix).
\* parseSpdzMessage only checks that there are 8 bytes and that the type
\* exists, so a payload of any length is produced.
C31_PayloadWidth ==
  (ParseSpdzMessageDone /\ codecResult.res.ok
     /\ codecResult.res.val.messageType \in TypesWithWidth)
    => Len(codecResult.res.val.data) % width(codecResult.res.val.messageType) = 0

\* ---------------------------------------------------------------------- C32

ListComparisonDone == codecCall.fn = "listComparison" /\ codecResult.done

\* compare holds for every pair of neighbours of the list
EveryAdjacentPair(list, fn) ==
  \A i \in 1..(Len(list) - 1) : compare(fn, list[i], list[i + 1])

\* C32: listComparison(list, compare) is true for a list of at most one
\* element and otherwise true exactly if compare holds for every adjacent pair
\* of elements: a falsy element is never misread as a failure and a failing
\* pair makes the result false whatever comes later.
\* After a failing pair the reduce hands NaN to compare in place of the
\* element, and a compare that accepts NaN (typeof NaN is 'number') forgets
\* the failure.
C32_AdjacentPairs ==
  ListComparisonDone
    => codecResult.res.val[1]
         = EveryAdjacentPair(codecCall.arg.list, codecCall.arg.compare)

\* ---------------------------------------------------------------------- C33

ConvertUserInputDone == codecCall.fn = "convertUserInput" /\ codecResult.done

HoldsNonNumber(list) == \E i \in 1..Len(list) : list[i].type # "number"

MustBeNumbersError == Err("User input values must be numbers.")

\* C33: convertUserInput throws 'User input values [...] must be numbers.' for
\* every list that holds at least one element that is no number, whatever the
\* list's length and the place of that element.
\* A list of one element is never looked at, and in a longer list a non
\* number followed by a number is forgotten.
C33_NonNumberThrows ==
  (ConvertUserInputDone /\ HoldsNonNumber(codecCall.arg.list))
    => codecResult.res = MustBeNumbersError

\* ---------------------------------------------------------------------- C34

AllNumbers(list) == \A i \in 1..Len(list) : list[i].type = "number"
AllIntegers(list) == \A i \in 1..Len(list) : NumberIsInteger(list[i])

\* the shifted fixed point integers of every element, with the current f and k
ShiftedList(list) ==
  Collect([i \in 1..Len(list) |->
             jsNumberToShiftedInteger(list[i], fix_decimal_bitlength,
                                      fix_whole_bitlength)])

\* C34: for a list of numbers of any length >= 1 convertUserInput returns the
\* list unchanged when every element is an integer, and converts every element
\* to its shifted fixed point integer when at least one element is no integer.
\* A list of the one element 1.5 is returned as it is.
C34_IntegersOrFixedPoints ==
  (ConvertUserInputDone /\ Len(codecCall.arg.list) >= 1
     /\ AllNumbers(codecCall.arg.list))
    => codecResult.res
         = IF AllIntegers(codecCall.arg.list) THEN Ok(codecCall.arg.list)
           ELSE ShiftedList(codecCall.arg.list)

\* ---------------------------------------------------------------------- C35

\* every proxy gave unit k of the outputs the same message type
UnitOfOneType(k) ==
  \A p \in Parties :
    routeHistory.outUnits[k][p].messageType = routeHistory.outUnits[k][1].messageType

\* C35: convertOutput delivers a result for a unit only if the messages of all
\* proxies in the unit carry the same messageType, and reports an error when
\* they differ.
\* The reduce of convertOutput keeps the messageType of the last proxy only,
\* and every payload is decoded with it.
C35_ResultOfOneType ==
  \A k \in DOMAIN routeHistory.results :
    routeHistory.results[k].ok => UnitOfOneType(k)

\* ---------------------------------------------------------------------- C36

\* the proxies sent messages of the same type at the same place of their
\* sequences, as far as the messages could be parsed
SameTypesSent ==
  \A i, j \in DOMAIN routeHistory.routed :
    routeHistory.routed[i].tag = routeHistory.routed[j].tag
      => routeHistory.routed[i].messageType = routeHistory.routed[j].messageType

\* C36: a message of one proxy that fails decryption or parsing does not shift
\* that proxy in the zip: every unit combines messages that hold the same
\* place in each proxy's sequence of sent messages.
\* The Bacon.Error of parseSpdzMessage passes the filter and the zip without
\* taking a place in the buffer of its proxy, so the next message of that
\* proxy is combined with the earlier message of the others.
C36_UnitsOfOnePlace ==
  SameTypesSent
    => \A k \in DOMAIN routeHistory.outUnits : \A p \in Parties :
         routeHistory.outUnits[k][p].tag = routeHistory.outUnits[k][1].tag

\* ---------------------------------------------------------------------- C40

\* this step pairs an input batch with a share batch and broadcasts the
\* masked inputs as a sendData command
MaskedInputsBroadcast ==
  /\ Len(sendHistory'.pairLog) = Len(sendHistory.pairLog) + 1
  /\ sendHistory'.pairLog[Len(sendHistory'.pairLog)].outcome = "value"

\* C40: a sendData command carrying masked secret inputs is broadcast only
\* while the latest aggregate proxy and engine connection statuses are both
\* true; an input batch queued while connected and still waiting for shares is
\* not broadcast after an aggregate disconnect.
\* sendInputsWithShares looks at the flags when the batch is pushed on
\* userInputBus; the zip of sendValueStream broadcasts when the shares come,
\* whatever the flags are by then.
C40_BroadcastWhileConnected ==
  [][MaskedInputsBroadcast => connectedToProxies /\ connectedToSpdz]_vars

\* ---------------------------------------------------------------------- C38

\* the errors the commands throw when the client is not connected
NotConnectedMessages ==
  {"Cannot run SPDZ connection if not connected to all SPDZ Proxies.",
   "Not connected to all SPDZ Engines.",
   "Not connected to all SPDZ Proxies/Engines."}

\* settled by the handler, or by the command throwing for want of a connection
Settled(w) ==
  /\ w.state \in {"resolved", "rejected"}
  /\ w.threw => w.reason \in NotConnectedMessages

\* C38: whenever a promise of connectToSpdzPartyPromise,
\* disconnectFromSpdzPartyPromise, sendSecretInputsPromise or
\* sendClearInputsPromise has been settled, also by the request throwing
\* because the client is not connected, its handler has been unsubscribed.
\* The catch of the request only calls reject: the handler subscribed before
\* the request stays on the stream.
C38_SettledIsUnsubscribed ==
  /\ \A k \in {"connect", "disconnect"} : Settled(waits[k]) => ~waits[k].subscribed
  /\ \A i \in 1..Len(sendWaits) : Settled(sendWaits[i]) => ~sendWaits[i].subscribed

\* ---------------------------------------------------------------------- C39

\* the proxy of promise i has answered the consume request with a payload,
\* which it has taken out of its buffer
ProxyDataConsumed(i) ==
  /\ restCall.entries[i].state # "pending"
  /\ restCall.entries[i].outcome.ok

\* every rejected promise of the request was rejected for one of the reasons
\* the claim names: no data at the proxy, or no client id of the proxy
RejectedForRetry ==
  \A j \in DOMAIN restCall.entries :
    restCall.entries[j].state = "rejected"
      => /\ ~restCall.entries[j].outcome.ok
         /\ restCall.entries[j].outcome.err
              \in {"No data is available to consume from the SPDZ proxy.", ""}

\* C39: consumeDataFromProxies is all or nothing: if it rejects, for example
\* with NoContentError from one proxy or because one proxy has no client id,
\* no proxy's buffered data has been consumed.
\* The requests to the proxies are independent: the proxies that hold data
\* hand it over, and Promise.all drops it when another promise rejects.
C39_AllOrNothing ==
  (restCall.kind = "consume" /\ restCall.settled = "rejected"
     /\ RejectedForRetry)
    => \A i \in DOMAIN restCall.entries : ~ProxyDataConsumed(i)

\* ---------------------------------------------------------------------- C37

\* the commands the socket of call c and proxy p emitted for input batch b
EmittedForBatch(c, p, b) ==
  {i \in DOMAIN busSockets[c][p] : busSockets[c][p][i].batch = b}

\* the zips of userInputBus that took input batch b
QueuesOfBatch(b) ==
  {c \in 1..MaxProxyCalls :
     \E i \in DOMAIN busHistory.taken :
       busHistory.taken[i] = [call |-> c, batch |-> b]}

\* C37: after connectToSPDZProxy has been called more than once, each command
\* is emitted exactly once to each proxy of the latest call and to no socket
\* of an earlier call, and each secret input batch is consumed by exactly one
\* pairing queue.
\* webSocketBus and userInputBus belong to the module: the sockets and the zip
\* of an earlier call stay subscribed.
C37_LatestCallOnly ==
  /\ \A c \in 1..MaxProxyCalls : \A p \in Parties :
       \A i \in DOMAIN busSockets[c][p] : busSockets[c][p][i].latest = c
  /\ \A b \in 1..busHistory.batches :
       /\ Cardinality(QueuesOfBatch(b)) = 1
       /\ \A c \in 1..MaxProxyCalls : \A p \in Parties :
            Cardinality(EmittedForBatch(c, p, b)) <= 1

====
